---- MODULE Spec2Model ----
(***************************************************************************)
(* The flattened-device-tree engine of depthcharge (base/device_tree.c):   *)
(* reader, builder (fdt_unflatten), navigator/mutator (dt_find_node,       *)
(* dt_add_*_prop, dt_find_compat, ...), size calculator and flattener      *)
(* (dt_flat_size, dt_flatten) and the fixup registry (dt_apply_fixups).    *)
(*                                                                         *)
(* Memory is modelled at byte level: a buffer is a sequence of bytes and   *)
(* the byte at C offset o is element o + 1.  Nodes live in an arena        *)
(* (a sequence of node records); a DeviceTreeNode pointer is the index of  *)
(* the record, NULL is 0.  A C string is the sequence of its characters    *)
(* without the terminating NUL.  A uint64_t is four 16-bit limbs, most     *)
(* significant first, so that no value leaves TLC's integer range.         *)
(***************************************************************************)
EXTENDS Integers, Sequences, FiniteSets, TLC

NULL == 0

\* ------------------------------------------------------------------------
\* Bounds of the model
\* ------------------------------------------------------------------------

\* How many navigator/mutator calls the boot code makes on the tree between
\* fdt_unflatten and dt_flatten.
MaxOps == 2
MaxFixups == 3
MaxCompatLen == 4

\* ------------------------------------------------------------------------
\* Program constants
\* ------------------------------------------------------------------------

\* Structure-block tokens (base/device_tree.h).
TokenBeginNode == 1
TokenEndNode == 2
TokenProperty == 3
TokenEnd == 9

\* Byte offsets of the FdtHeader fields (base/device_tree.h): ten uint32_t,
\* magic, totalsize, structure_offset, strings_offset, reserve_map_offset,
\* version, last_compatible_version, boot_cpuid_phys, strings_size,
\* structure_size.
OffTotalsize == 4
OffStructureOffset == 8
OffStringsOffset == 12
OffReserveMapOffset == 16
OffStringsSize == 32
OffStructureSize == 36

\* ARRAY_SIZE(node_cache), ARRAY_SIZE(prop_cache).
NodeCacheSize == 1000
PropCacheSize == 5000

\* ------------------------------------------------------------------------
\* Bytes, integers, strings
\* ------------------------------------------------------------------------

MIN(a, b) == IF a < b THEN a ELSE b

\* be32toh(*(uint32_t *)(buf + off))
be32toh(buf, off) ==
    ((buf[off + 1] * 256 + buf[off + 2]) * 256 + buf[off + 3]) * 256 + buf[off + 4]

\* htobe32(val), as the four bytes it stores.
htobe32(val) ==
    << (val \div 16777216) % 256, (val \div 65536) % 256, (val \div 256) % 256, val % 256 >>

\* be64toh(*(uint64_t *)(buf + off)), as four 16-bit limbs.
be64toh(buf, off) ==
    [k \in 1..4 |-> buf[off + 2 * k - 1] * 256 + buf[off + 2 * k]]

\* htobe64(val), as the eight bytes it stores.
htobe64(val) ==
    [k \in 1..8 |-> IF k % 2 = 1 THEN val[(k + 1) \div 2] \div 256 ELSE val[k \div 2] % 256]

U64Zero == <<0, 0, 0, 0>>

\* src >> 8 on a uint64_t.
Shr8(src) ==
    [k \in 1..4 |-> (IF k = 1 THEN 0 ELSE (src[k - 1] % 256) * 256) + src[k] \div 256]

\* The C string that starts at offset off of buf (strlen and the characters).
RECURSIVE CStr(_, _)
CStr(buf, off) ==
    IF buf[off + 1] = 0 THEN <<>> ELSE <<buf[off + 1]>> \o CStr(buf, off + 1)

strlen(s) == Len(s)

\* !strcmp(a, b) on two C strings.
StrEq(a, b) == a = b

\* size32: the number of 32-bit words that hold val bytes.
size32(val) == (val + 4 - 1) \div 4

\* ------------------------------------------------------------------------
\* The linked-list utility (base/list.h)
\* ------------------------------------------------------------------------

\* list_insert_after(&elem->list_node, after): elem becomes the successor of
\* the element at position after of the list; position 0 is the list head.
list_insert_after(list, elem, after) ==
    SubSeq(list, 1, after) \o <<elem>> \o SubSeq(list, after + 1, Len(list))

\* ------------------------------------------------------------------------
\* Functions for picking apart flattened trees
\* ------------------------------------------------------------------------

\* fdt_next_property that clears the caller's FdtProperty before it looks
\* at the token.
fdt_next_property_Clear(blob, offset, prop) ==
    IF be32toh(blob, offset) # TokenProperty
    THEN [ret |-> 0, prop |-> [name |-> <<>>, data |-> <<>>, size |-> 0]]
    ELSE LET size == be32toh(blob, offset + 4)
             name_offset == be32toh(blob, offset + 8) + be32toh(blob, OffStringsOffset)
         IN  [ret |-> (3 + size32(size)) * 4,
              prop |-> [name |-> CStr(blob, name_offset),
                        data |-> SubSeq(blob, offset + 12 + 1, offset + 12 + size),
                        size |-> size]]

\* fdt_next_property(blob, offset, prop): [ret, prop], prop being the
\* caller's FdtProperty after the call.
fdt_next_property(blob, offset, prop) ==
    IF be32toh(blob, offset) # TokenProperty
    THEN [ret |-> 0, prop |-> prop]
    ELSE LET size == be32toh(blob, offset + 4)
             name_offset == be32toh(blob, offset + 8) + be32toh(blob, OffStringsOffset)
         IN  [ret |-> (3 + size32(size)) * 4,
              prop |-> [name |-> CStr(blob, name_offset),
                        data |-> SubSeq(blob, offset + 12 + 1, offset + 12 + size),
                        size |-> size]]

\* be32toh(*(uint32_t *)(buf + off)) at its full width, as two 16-bit limbs.
be32toh_limbs(buf, off) ==
    [hi |-> buf[off + 1] * 256 + buf[off + 2], lo |-> buf[off + 3] * 256 + buf[off + 4]]

\* size32 on a uint32_t given as limbs.  The sum val + sizeof(uint32_t) - 1
\* has the width of size_t; the quotient fits the uint32_t returned.
size32_limbs(val, size_t_bits) ==
    LET lo == val.lo + 4 - 1
        carried == val.hi + lo \div 65536
        hi == IF size_t_bits = 32 THEN carried % 65536 ELSE carried
    IN  hi * 16384 + (lo % 65536) \div 4

IntMax == 2147483647

\* The value fdt_next_property returns on a PROPERTY token, for a size of
\* any width: index, whether index * 4 overflows int, and the product
\* (the two's complement product where it overflows).
fdt_next_property_ret(blob, offset, size_t_bits) ==
    LET size == be32toh_limbs(blob, offset + 4)
        index == 3 + size32_limbs(size, size_t_bits)
        overflow == index > IntMax \div 4
    IN  [index |-> index,
         overflow |-> overflow,
         ret |-> IF overflow THEN (index - 1073741824) * 4 ELSE index * 4]

\* fdt_node_name(blob, offset, name): [ret, name], name being the caller's
\* name pointer after the call.
fdt_node_name(blob, offset, name) ==
    IF be32toh(blob, offset) # TokenBeginNode
    THEN [ret |-> 0, name |-> name]
    ELSE LET ptr == CStr(blob, offset + 4)
         IN  [ret |-> size32(strlen(ptr) + 1) * 4 + 4, name |-> ptr]

\* fdt_skip_node that does not count the END_NODE token.
RECURSIVE fdt_skip_node_NoEndToken(_, _)
RECURSIVE SkipChildrenNoEndToken(_, _)
SkipChildrenNoEndToken(blob, offset) ==
    LET size == fdt_skip_node_NoEndToken(blob, offset)
    IN  IF size = 0 THEN offset ELSE SkipChildrenNoEndToken(blob, offset + size + 4)

fdt_skip_node_NoEndToken(blob, start_offset) ==
    LET size == fdt_node_name(blob, start_offset, NULL).ret
        \* the property loop of fdt_skip_node
        props(offset) == LET RECURSIVE loop(_)
                             loop(o) == LET n == fdt_next_property(blob, o, NULL).ret
                                        IN  IF n = 0 THEN o ELSE loop(o + n)
                         IN  loop(offset)
    IN  IF size = 0 THEN 0
        ELSE SkipChildrenNoEndToken(blob, props(start_offset + size)) - start_offset

\* fdt_skip_node(blob, start_offset)
RECURSIVE fdt_skip_node(_, _)
RECURSIVE SkipProperties(_, _)
RECURSIVE SkipChildren(_, _)

\* while ((size = fdt_next_property(blob, offset, NULL))) offset += size;
SkipProperties(blob, offset) ==
    LET size == fdt_next_property(blob, offset, NULL).ret
    IN  IF size = 0 THEN offset ELSE SkipProperties(blob, offset + size)

\* while ((size = fdt_skip_node(blob, offset))) offset += size;
SkipChildren(blob, offset) ==
    LET size == fdt_skip_node(blob, offset)
    IN  IF size = 0 THEN offset ELSE SkipChildren(blob, offset + size)

fdt_skip_node(blob, start_offset) ==
    LET size == fdt_node_name(blob, start_offset, NULL).ret
    IN  IF size = 0 THEN 0
        ELSE SkipChildren(blob, SkipProperties(blob, start_offset + size))
                 - start_offset + 4

\* ------------------------------------------------------------------------
\* Functions to turn a flattened tree into an unflattened one
\* ------------------------------------------------------------------------

\* A heap h is [nodes, node_counter, prop_counter, slots]: the arena of
\* every DeviceTreeNode handed out so far (from node_cache or from xzalloc),
\* the two pool counters, and the storage of the records handed out so far,
\* in order: slots.node and slots.prop list k for &node_cache[k] or
\* &prop_cache[k] and a number from the cache size on for memory xzalloc
\* returned (each call of xzalloc returns memory no earlier call returned).  A node is [name, properties, children]; properties is
\* the list of its DeviceTreeProperty records [name, data, size], children
\* the list of its child node pointers.

\* A zeroed DeviceTreeNode (static storage, or xzalloc).
ZeroNode == [name |-> <<>>, properties |-> <<>>, children |-> <<>>]

\* A zeroed DeviceTreeProperty.
ZeroProp == [name |-> <<>>, data |-> <<>>, size |-> 0]

\* xzalloc(size) when the records listed in slots are handed out and the
\* cache holds cache_size records: memory that is none of them.
xzalloc(slots, cache_size) ==
    cache_size + Cardinality({i \in 1..Len(slots) : slots[i] >= cache_size})

\* alloc_node that does not look at the size of node_cache.
alloc_node_Unbounded(h) ==
    [h |-> [h EXCEPT !.nodes = Append(h.nodes, ZeroNode),
                     !.node_counter = @ + 1,
                     !.slots.node = Append(@, h.node_counter)],
     node |-> Len(h.nodes) + 1]

\* alloc_node(): [h, node]
alloc_node(h) ==
    IF h.node_counter >= NodeCacheSize
    THEN [h |-> [h EXCEPT !.nodes = Append(h.nodes, ZeroNode),
                          !.slots.node = Append(@, xzalloc(@, NodeCacheSize))],
          node |-> Len(h.nodes) + 1]
    ELSE [h |-> [h EXCEPT !.nodes = Append(h.nodes, ZeroNode),
                          !.node_counter = @ + 1,
                          !.slots.node = Append(@, h.node_counter)],
          node |-> Len(h.nodes) + 1]

\* alloc_prop(): [h, prop]
alloc_prop(h) ==
    IF h.prop_counter >= PropCacheSize
    THEN [h |-> [h EXCEPT !.slots.prop = Append(@, xzalloc(@, PropCacheSize))],
          prop |-> ZeroProp]
    ELSE [h |-> [h EXCEPT !.prop_counter = @ + 1,
                          !.slots.prop = Append(@, h.prop_counter)],
          prop |-> ZeroProp]

RECURSIVE fdt_unflatten_node(_, _, _)
RECURSIVE UnflattenProperties(_, _, _, _)
RECURSIVE UnflattenChildren(_, _, _, _)

\* The property loop of fdt_unflatten_node: [h, offset].  Each property is
\* inserted after the last one.
UnflattenProperties(blob, offset, h, node) ==
    LET r == fdt_next_property(blob, offset, ZeroProp)
    IN  IF r.ret = 0 THEN [h |-> h, offset |-> offset]
        ELSE LET a == alloc_prop(h)
                 prop == r.prop
                 last == Len(a.h.nodes[node].properties)
                 h1 == [a.h EXCEPT !.nodes[node].properties =
                                       list_insert_after(@, prop, last)]
             IN  UnflattenProperties(blob, offset + r.ret, h1, node)

\* The child loop of fdt_unflatten_node with every child put first in the
\* list.
RECURSIVE UnflattenChildren_Prepend(_, _, _, _)
UnflattenChildren_Prepend(blob, offset, h, node) ==
    LET r == fdt_unflatten_node(blob, offset, h)
    IN  IF r.ret = 0 THEN [h |-> h, offset |-> offset]
        ELSE LET h1 == [r.h EXCEPT !.nodes[node].children =
                                       list_insert_after(@, r.node, 0)]
             IN  UnflattenChildren_Prepend(blob, offset + r.ret, h1, node)

\* The child loop of fdt_unflatten_node: [h, offset].
UnflattenChildren(blob, offset, h, node) ==
    LET r == fdt_unflatten_node(blob, offset, h)
    IN  IF r.ret = 0 THEN [h |-> h, offset |-> offset]
        ELSE LET last == Len(r.h.nodes[node].children)
                 h1 == [r.h EXCEPT !.nodes[node].children =
                                       list_insert_after(@, r.node, last)]
             IN  UnflattenChildren(blob, offset + r.ret, h1, node)

\* fdt_unflatten_node(blob, start_offset, &new_node): [ret, h, node]
fdt_unflatten_node(blob, start_offset, h) ==
    LET nn == fdt_node_name(blob, start_offset, <<>>)
    IN  IF nn.ret = 0 THEN [ret |-> 0, h |-> h, node |-> NULL]
        ELSE LET a == alloc_node(h)
                 h1 == [a.h EXCEPT !.nodes[a.node].name = nn.name]
                 p == UnflattenProperties(blob, start_offset + nn.ret, h1, a.node)
                 c == UnflattenChildren(blob, p.offset, p.h, a.node)
             IN  [ret |-> c.offset - start_offset + 4, h |-> c.h, node |-> a.node]

\* fdt_unflatten_map_entry that takes a zero start, not a zero size, for the
\* end of the map.
fdt_unflatten_map_entry_ZeroStart(blob, offset) ==
    LET start == be64toh(blob, offset)
        size == be64toh(blob, offset + 8)
    IN  IF start = U64Zero THEN [ret |-> 0, entry |-> NULL]
        ELSE [ret |-> 16, entry |-> [start |-> start, size |-> size]]

\* fdt_unflatten_map_entry(blob, offset, &new_entry): [ret, entry]
fdt_unflatten_map_entry(blob, offset) ==
    LET start == be64toh(blob, offset)
        size == be64toh(blob, offset + 8)
    IN  IF size = U64Zero THEN [ret |-> 0, entry |-> NULL]
        ELSE [ret |-> 16, entry |-> [start |-> start, size |-> size]]

\* The reserve-map loop of fdt_unflatten: [map, ub].  Reading a pair that
\* does not lie inside the buffer is undefined: ub is set and the walk stops.
RECURSIVE UnflattenMap(_, _, _)
UnflattenMap(blob, offset, map) ==
    IF offset + 16 > Len(blob) THEN [map |-> map, ub |-> TRUE]
    ELSE LET r == fdt_unflatten_map_entry(blob, offset)
         IN  IF r.ret = 0 THEN [map |-> map, ub |-> FALSE]
             ELSE UnflattenMap(blob, offset + r.ret,
                               list_insert_after(map, r.entry, Len(map)))

\* fdt_unflatten(blob): [tree, h, ub].  tree.header points to the blob.
fdt_unflatten(blob, h) ==
    LET struct_offset == be32toh(blob, OffStructureOffset)
        strings_offset == be32toh(blob, OffStringsOffset)
        reserve_offset == be32toh(blob, OffReserveMapOffset)
        min_offset == MIN(MIN(struct_offset, strings_offset), reserve_offset)
        m == UnflattenMap(blob, reserve_offset, <<>>)
        r == fdt_unflatten_node(blob, struct_offset, h)
    IN  [tree |-> [header_size |-> min_offset,
                   reserve_map |-> m.map,
                   root |-> r.node],
         h |-> r.h,
         ub |-> m.ub]

\* ------------------------------------------------------------------------
\* Functions to find the size a device tree would take if it was flattened
\* ------------------------------------------------------------------------

\* dt_flat_prop_size counting the name without its NUL.
dt_flat_prop_size_NoNul(prop, sz) ==
    [struct_size |-> sz.struct_size + 4 + 4 + 4 + size32(prop.size) * 4,
     strings_size |-> sz.strings_size + strlen(prop.name)]

\* dt_flat_prop_size(prop, &struct_size, &strings_size): the two sums after
\* the call, as [struct_size, strings_size].
dt_flat_prop_size(prop, sz) ==
    [struct_size |-> sz.struct_size + 4 + 4 + 4 + size32(prop.size) * 4,
     strings_size |-> sz.strings_size + strlen(prop.name) + 1]

RECURSIVE dt_flat_node_size(_, _, _)
RECURSIVE FlatPropsSize(_, _, _)
RECURSIVE FlatChildrenSize(_, _, _, _)

\* list_for_each(prop, node->properties, list_node) dt_flat_prop_size(...)
FlatPropsSize(props, i, sz) ==
    IF i > Len(props) THEN sz
    ELSE FlatPropsSize(props, i + 1, dt_flat_prop_size(props[i], sz))

\* list_for_each(child, node->children, list_node) dt_flat_node_size(...)
FlatChildrenSize(nodes, children, i, sz) ==
    IF i > Len(children) THEN sz
    ELSE FlatChildrenSize(nodes, children, i + 1,
                          dt_flat_node_size(nodes, children[i], sz))

\* dt_flat_node_size(node, &struct_size, &strings_size)
dt_flat_node_size(nodes, node, sz) ==
    LET s1 == [sz EXCEPT !.struct_size =
                   @ + 4 + size32(strlen(nodes[node].name) + 1) * 4]
        s2 == FlatPropsSize(nodes[node].properties, 1, s1)
        s3 == FlatChildrenSize(nodes, nodes[node].children, 1, s2)
    IN  [s3 EXCEPT !.struct_size = @ + 4]

ZeroSize == [struct_size |-> 0, strings_size |-> 0]

\* dt_flat_size without the 4 bytes of the end-of-structure token.
dt_flat_size_NoEndToken(tree, nodes) ==
    LET sz == dt_flat_node_size(nodes, tree.root, ZeroSize)
    IN  tree.header_size + 16 * Len(tree.reserve_map) + 16
            + sz.struct_size + sz.strings_size

\* dt_flat_size(tree)
dt_flat_size(tree, nodes) ==
    LET sz == dt_flat_node_size(nodes, tree.root, ZeroSize)
    IN  tree.header_size + 16 * Len(tree.reserve_map) + 16
            + sz.struct_size + 4 + sz.strings_size

\* ------------------------------------------------------------------------
\* Functions to flatten a device tree
\* ------------------------------------------------------------------------

\* The destination memory w is [buf, hi]: the bytes of the caller's buffer
\* and the end (offset of the last byte stored, plus one) of the highest
\* store made so far.  A store outside the buffer only moves hi.
Store(w, off, bytes) ==
    [buf |-> [i \in 1..Len(w.buf) |->
                 IF i > off /\ i <= off + Len(bytes) THEN bytes[i - off] ELSE w.buf[i]],
     hi |-> IF Len(bytes) > 0 /\ off + Len(bytes) > w.hi THEN off + Len(bytes) ELSE w.hi]

\* dt_flatten_map_entry(entry, &map_start): [w, map_start]
dt_flatten_map_entry(entry, w, map_start) ==
    [w |-> Store(Store(w, map_start, htobe64(entry.start)),
                 map_start + 8, htobe64(entry.size)),
     map_start |-> map_start + 16]

\* list_for_each(entry, tree->reserve_map, list_node) dt_flatten_map_entry(...)
RECURSIVE FlattenMap(_, _, _, _)
FlattenMap(map, i, w, dest) ==
    IF i > Len(map) THEN [w |-> w, map_start |-> dest]
    ELSE LET r == dt_flatten_map_entry(map[i], w, dest)
         IN  FlattenMap(map, i + 1, r.w, r.map_start)

\* dt_flatten_prop advancing the structure cursor by the size of the value
\* instead of the size rounded up to whole words.
dt_flatten_prop_Unpadded(prop, w, struct_start, strings_base, strings_start) ==
    LET name_offset == strings_start - strings_base
        w1 == Store(w, struct_start, htobe32(TokenProperty))
        w2 == Store(w1, struct_start + 4, htobe32(prop.size))
        w3 == Store(w2, struct_start + 8, htobe32(name_offset))
        w4 == Store(w3, strings_start, prop.name \o <<0>>)
        w5 == Store(w4, struct_start + 12, SubSeq(prop.data, 1, prop.size))
    IN  [w |-> w5,
         dstruct |-> struct_start + 12 + prop.size,
         dstrings |-> strings_start + strlen(prop.name) + 1]

\* dt_flatten_prop storing the offset of the name from the start of the
\* buffer instead of from the start of the strings block.
dt_flatten_prop_BufferOffset(prop, w, struct_start, strings_base, strings_start) ==
    LET w1 == Store(w, struct_start, htobe32(TokenProperty))
        w2 == Store(w1, struct_start + 4, htobe32(prop.size))
        w3 == Store(w2, struct_start + 8, htobe32(strings_start))
        w4 == Store(w3, strings_start, prop.name \o <<0>>)
        w5 == Store(w4, struct_start + 12, SubSeq(prop.data, 1, prop.size))
    IN  [w |-> w5,
         dstruct |-> struct_start + 12 + size32(prop.size) * 4,
         dstrings |-> strings_start + strlen(prop.name) + 1]

\* dt_flatten_prop(prop, &struct_start, strings_base, &strings_start):
\* [w, dstruct, dstrings], the memory and the two cursors after the call.
dt_flatten_prop(prop, w, struct_start, strings_base, strings_start) ==
    LET name_offset == strings_start - strings_base
        w1 == Store(w, struct_start, htobe32(TokenProperty))
        w2 == Store(w1, struct_start + 4, htobe32(prop.size))
        w3 == Store(w2, struct_start + 8, htobe32(name_offset))
        \* strcpy((char *)dstrings, prop->prop.name)
        w4 == Store(w3, strings_start, prop.name \o <<0>>)
        \* memcpy(dstruct, prop->prop.data, prop->prop.size)
        w5 == Store(w4, struct_start + 12, SubSeq(prop.data, 1, prop.size))
    IN  [w |-> w5,
         dstruct |-> struct_start + 12 + size32(prop.size) * 4,
         dstrings |-> strings_start + strlen(prop.name) + 1]

RECURSIVE dt_flatten_node(_, _, _, _, _, _)
RECURSIVE FlattenProps(_, _, _)
RECURSIVE FlattenChildren(_, _, _, _)

\* list_for_each(prop, node->properties, list_node) dt_flatten_prop(...);
\* c is [w, dstruct, dstrings, strings_base].
FlattenProps(props, i, c) ==
    IF i > Len(props) THEN c
    ELSE LET r == dt_flatten_prop(props[i], c.w, c.dstruct, c.strings_base, c.dstrings)
         IN  FlattenProps(props, i + 1,
                          [c EXCEPT !.w = r.w, !.dstruct = r.dstruct,
                                    !.dstrings = r.dstrings])

\* list_for_each(child, node->children, list_node) dt_flatten_node(...)
FlattenChildren(nodes, children, i, c) ==
    IF i > Len(children) THEN c
    ELSE LET r == dt_flatten_node(nodes, children[i], c.w, c.dstruct,
                                  c.strings_base, c.dstrings)
         IN  FlattenChildren(nodes, children, i + 1,
                             [c EXCEPT !.w = r.w, !.dstruct = r.dstruct,
                                       !.dstrings = r.dstrings])

\* dt_flatten_node(node, &struct_start, strings_base, &strings_start):
\* [w, dstruct, dstrings]
dt_flatten_node(nodes, node, w, struct_start, strings_base, strings_start) ==
    LET name == nodes[node].name
        w1 == Store(w, struct_start, htobe32(TokenBeginNode))
        \* strcpy((char *)dstruct, node->name)
        w2 == Store(w1, struct_start + 4, name \o <<0>>)
        c0 == [w |-> w2,
               dstruct |-> struct_start + 4 + size32(strlen(name) + 1) * 4,
               dstrings |-> strings_start,
               strings_base |-> strings_base]
        c1 == FlattenProps(nodes[node].properties, 1, c0)
        c2 == FlattenChildren(nodes, nodes[node].children, 1, c1)
        w3 == Store(c2.w, c2.dstruct, htobe32(TokenEndNode))
    IN  [w |-> w3, dstruct |-> c2.dstruct + 4, dstrings |-> c2.dstrings]

\* dt_flatten that copies the 40 header bytes it knows the fields of.
dt_flatten_KnownHeader(tree, header, nodes, start_dest) ==
    LET w0 == [buf |-> start_dest, hi |-> 0]
        w1 == Store(w0, 0, SubSeq(header, 1, 40))
        m == FlattenMap(tree.reserve_map, 1, w1, tree.header_size)
        w2 == Store(m.w, m.map_start, htobe64(U64Zero) \o htobe64(U64Zero))
        sz == dt_flat_node_size(nodes, tree.root, ZeroSize)
        struct_start == m.map_start + 16
        w3 == Store(w2, OffStructureOffset, htobe32(struct_start))
        w4 == Store(w3, OffStructureSize, htobe32(sz.struct_size))
        w5 == Store(w4, struct_start + sz.struct_size, htobe32(TokenEnd))
        strings_start == struct_start + sz.struct_size + 4
        w6 == Store(w5, OffStringsOffset, htobe32(strings_start))
        w7 == Store(w6, OffStringsSize, htobe32(sz.strings_size))
        dest == strings_start + sz.strings_size
        n == dt_flatten_node(nodes, tree.root, w7, struct_start, strings_start,
                             strings_start)
        w8 == Store(n.w, OffTotalsize, htobe32(dest))
    IN  [buf |-> w8.buf, hi |-> w8.hi, struct_end |-> n.dstruct,
         strings_end |-> n.dstrings, dest |-> dest]

\* dt_flatten(tree, start_dest): header is the memory tree->header points to,
\* start_dest the caller's buffer as it is before the call.  The result is
\* [buf, hi, struct_end, strings_end, dest]: the buffer and the highest
\* store, the two cursors after dt_flatten_node, and dest at the end.
dt_flatten(tree, header, nodes, start_dest) ==
    LET w0 == [buf |-> start_dest, hi |-> 0]
        \* memcpy(dest, tree->header, tree->header_size)
        w1 == Store(w0, 0, SubSeq(header, 1, tree.header_size))
        m == FlattenMap(tree.reserve_map, 1, w1, tree.header_size)
        w2 == Store(m.w, m.map_start, htobe64(U64Zero) \o htobe64(U64Zero))
        sz == dt_flat_node_size(nodes, tree.root, ZeroSize)
        struct_start == m.map_start + 16
        w3 == Store(w2, OffStructureOffset, htobe32(struct_start))
        w4 == Store(w3, OffStructureSize, htobe32(sz.struct_size))
        w5 == Store(w4, struct_start + sz.struct_size, htobe32(TokenEnd))
        strings_start == struct_start + sz.struct_size + 4
        w6 == Store(w5, OffStringsOffset, htobe32(strings_start))
        w7 == Store(w6, OffStringsSize, htobe32(sz.strings_size))
        dest == strings_start + sz.strings_size
        n == dt_flatten_node(nodes, tree.root, w7, struct_start, strings_start,
                             strings_start)
        w8 == Store(n.w, OffTotalsize, htobe32(dest))
    IN  [buf |-> w8.buf, hi |-> w8.hi, struct_end |-> n.dstruct,
         strings_end |-> n.dstrings, dest |-> dest]

\* ------------------------------------------------------------------------
\* Functions for reading and manipulating an unflattened device tree
\* ------------------------------------------------------------------------

\* Property and node names the code compares with.
AddressCells == <<35, 97, 100, 100, 114, 101, 115, 115, 45, 99, 101, 108, 108, 115>>
SizeCells == <<35, 115, 105, 122, 101, 45, 99, 101, 108, 108, 115>>
Compatible == <<99, 111, 109, 112, 97, 116, 105, 98, 108, 101>>
Reg == <<114, 101, 103>>

\* The value a pointer argument that is NULL stands for.
NoPtr == -1

\* dt_read_cell_props(node, addrcp, sizecp): cells is [addr, size], the
\* values *addrcp and *sizecp (NoPtr for a NULL pointer); the result is
\* cells after the call.
RECURSIVE ReadCellProps(_, _, _)
ReadCellProps(props, i, cells) ==
    IF i > Len(props) THEN cells
    ELSE LET c1 == IF cells.addr # NoPtr /\ StrEq(AddressCells, props[i].name)
                   THEN [cells EXCEPT !.addr = be32toh(props[i].data, 0)]
                   ELSE cells
             c2 == IF c1.size # NoPtr /\ StrEq(SizeCells, props[i].name)
                   THEN [c1 EXCEPT !.size = be32toh(props[i].data, 0)]
                   ELSE c1
         IN  ReadCellProps(props, i + 1, c2)

\* dt_read_cell_props that stores the defaults 2 and 1 before it looks for
\* the properties.
dt_read_cell_props_Defaults(nodes, node, cells) ==
    ReadCellProps(nodes[node].properties, 1,
                  [addr |-> IF cells.addr = NoPtr THEN NoPtr ELSE 2,
                   size |-> IF cells.size = NoPtr THEN NoPtr ELSE 1])

dt_read_cell_props(nodes, node, cells) ==
    ReadCellProps(nodes[node].properties, 1, cells)

\* The child loop of dt_find_node: the first child called name, or NULL.
RECURSIVE FindChild(_, _, _, _)
FindChild(nodes, children, i, name) ==
    IF i > Len(children) THEN NULL
    ELSE IF StrEq(nodes[children[i]].name, name) THEN children[i]
    ELSE FindChild(nodes, children, i + 1, name)

\* dt_find_node whose created node is never linked into its parent's
\* children list.
RECURSIVE dt_find_node_Unlinked(_, _, _, _, _)
dt_find_node_Unlinked(h, parent, path, cells, create) ==
    LET c1 == dt_read_cell_props(h.nodes, parent, cells)
    IN  IF path = <<>> THEN [h |-> h, node |-> parent, cells |-> c1]
        ELSE LET found == FindChild(h.nodes, h.nodes[parent].children, 1, Head(path))
             IN  IF found # NULL
                 THEN dt_find_node_Unlinked(h, found, Tail(path), c1, create)
                 ELSE IF create = 0
                 THEN [h |-> h, node |-> NULL, cells |-> c1]
                 ELSE LET a == alloc_node(h)
                          h1 == [a.h EXCEPT !.nodes[a.node].name = Head(path)]
                      IN  dt_find_node_Unlinked(h1, a.node, Tail(path), c1, create)

\* dt_find_node that inserts a created node after the last child.
RECURSIVE dt_find_node_AfterLast(_, _, _, _, _)
dt_find_node_AfterLast(h, parent, path, cells, create) ==
    LET c1 == dt_read_cell_props(h.nodes, parent, cells)
    IN  IF path = <<>> THEN [h |-> h, node |-> parent, cells |-> c1]
        ELSE LET found == FindChild(h.nodes, h.nodes[parent].children, 1, Head(path))
             IN  IF found # NULL
                 THEN dt_find_node_AfterLast(h, found, Tail(path), c1, create)
                 ELSE IF create = 0
                 THEN [h |-> h, node |-> NULL, cells |-> c1]
                 ELSE LET a == alloc_node(h)
                          h1 == [a.h EXCEPT
                                    !.nodes[a.node].name = Head(path),
                                    !.nodes[parent].children =
                                        list_insert_after(@, a.node, Len(@))]
                      IN  dt_find_node_AfterLast(h1, a.node, Tail(path), c1, create)

\* dt_find_node that creates what it does not find, whatever create is.
RECURSIVE dt_find_node_AlwaysCreate(_, _, _, _, _)
dt_find_node_AlwaysCreate(h, parent, path, cells, create) ==
    LET c1 == dt_read_cell_props(h.nodes, parent, cells)
    IN  IF path = <<>> THEN [h |-> h, node |-> parent, cells |-> c1]
        ELSE LET found == FindChild(h.nodes, h.nodes[parent].children, 1, Head(path))
             IN  IF found # NULL
                 THEN dt_find_node_AlwaysCreate(h, found, Tail(path), c1, create)
                 ELSE LET a == alloc_node(h)
                          h1 == [a.h EXCEPT
                                    !.nodes[a.node].name = Head(path),
                                    !.nodes[parent].children =
                                        list_insert_after(@, a.node, 0)]
                      IN  dt_find_node_AlwaysCreate(h1, a.node, Tail(path), c1, create)

\* dt_find_node(parent, path, addrcp, sizecp, create): [h, node, cells].
\* strdup is taken to succeed (the heap is not exhausted).
RECURSIVE dt_find_node(_, _, _, _, _)
dt_find_node(h, parent, path, cells, create) ==
    LET c1 == dt_read_cell_props(h.nodes, parent, cells)
    IN  IF path = <<>> THEN [h |-> h, node |-> parent, cells |-> c1]
        ELSE LET found == FindChild(h.nodes, h.nodes[parent].children, 1, Head(path))
             IN  IF found # NULL
                 THEN dt_find_node(h, found, Tail(path), c1, create)
                 ELSE IF create = 0
                 THEN [h |-> h, node |-> NULL, cells |-> c1]
                 ELSE LET a == alloc_node(h)
                          h1 == [a.h EXCEPT
                                    !.nodes[a.node].name = Head(path),
                                    !.nodes[parent].children =
                                        list_insert_after(@, a.node, 0)]
                      IN  dt_find_node(h1, a.node, Tail(path), c1, create)

\* strncmp(s, str, n) = 0, s a C string and str the bytes at data[pos + 1 ..].
RECURSIVE StrnEq(_, _, _, _, _)
StrnEq(s, data, pos, n, i) ==
    IF i >= n THEN TRUE
    ELSE LET cs == IF i < Len(s) THEN s[i + 1] ELSE 0
             cd == data[pos + i + 1]
         IN  IF cs # cd THEN FALSE
             ELSE IF cs = 0 THEN TRUE
             ELSE StrnEq(s, data, pos, n, i + 1)

\* strnlen(str, n), str the bytes at data[pos + 1 ..].
RECURSIVE strnlen(_, _, _)
strnlen(data, pos, n) ==
    IF n = 0 \/ data[pos + 1] = 0 THEN 0 ELSE 1 + strnlen(data, pos + 1, n - 1)

\* The while loop of dt_check_compat_match over the compatible property.
RECURSIVE CompatLoop(_, _, _, _)
CompatLoop(compat, data, pos, bytes) ==
    IF bytes <= 0 THEN 0
    ELSE IF StrnEq(compat, data, pos, bytes, 0) THEN 1
    ELSE LET len == strnlen(data, pos, bytes) + 1
         IN  IF bytes <= len THEN 0
             ELSE CompatLoop(compat, data, pos + len, bytes - len)

\* dt_check_compat_match(node, compat): 1 = compatible, 0 = not compatible.
RECURSIVE CheckCompatProps(_, _, _)
CheckCompatProps(props, i, compat) ==
    IF i > Len(props) THEN 0
    ELSE IF StrEq(Compatible, props[i].name)
    THEN CompatLoop(compat, props[i].data, 0, props[i].size)
    ELSE CheckCompatProps(props, i + 1, compat)

dt_check_compat_match(nodes, node, compat) ==
    CheckCompatProps(nodes[node].properties, 1, compat)

\* dt_find_compat that searches the children before the node itself.
RECURSIVE dt_find_compat_ChildrenFirst(_, _, _)
RECURSIVE FindCompatChildrenFirst(_, _, _, _)
FindCompatChildrenFirst(nodes, children, i, compat) ==
    IF i > Len(children) THEN NULL
    ELSE LET found == dt_find_compat_ChildrenFirst(nodes, children[i], compat)
         IN  IF found # NULL THEN found
             ELSE FindCompatChildrenFirst(nodes, children, i + 1, compat)

dt_find_compat_ChildrenFirst(nodes, parent, compat) ==
    LET found == FindCompatChildrenFirst(nodes, nodes[parent].children, 1, compat)
    IN  IF found # NULL THEN found
        ELSE IF dt_check_compat_match(nodes, parent, compat) # 0 THEN parent
        ELSE NULL

\* dt_find_compat(parent, compat)
RECURSIVE dt_find_compat(_, _, _)
RECURSIVE FindCompatChildren(_, _, _, _)
FindCompatChildren(nodes, children, i, compat) ==
    IF i > Len(children) THEN NULL
    ELSE LET found == dt_find_compat(nodes, children[i], compat)
         IN  IF found # NULL THEN found
             ELSE FindCompatChildren(nodes, children, i + 1, compat)

dt_find_compat(nodes, parent, compat) ==
    IF dt_check_compat_match(nodes, parent, compat) # 0 THEN parent
    ELSE FindCompatChildren(nodes, nodes[parent].children, 1, compat)

\* dt_find_next_compat_child that never skips: the first compatible child,
\* whatever child is.
dt_find_next_compat_child_NoSkip(nodes, parent, child, compat) ==
    LET match == {i \in 1..Len(nodes[parent].children) :
                      dt_check_compat_match(nodes, nodes[parent].children[i], compat) # 0}
    IN  IF match = {} THEN NULL
        ELSE nodes[parent].children[CHOOSE i \in match : \A j \in match : i <= j]

\* dt_find_next_compat_child(parent, child, compat)
RECURSIVE NextCompatLoop(_, _, _, _, _, _)
NextCompatLoop(nodes, children, i, ignore, child, compat) ==
    IF i > Len(children) THEN NULL
    ELSE IF ignore # 0
    THEN NextCompatLoop(nodes, children, i + 1,
                        IF child = children[i] THEN 0 ELSE ignore, child, compat)
    ELSE IF dt_check_compat_match(nodes, children[i], compat) # 0 THEN children[i]
    ELSE NextCompatLoop(nodes, children, i + 1, ignore, child, compat)

dt_find_next_compat_child(nodes, parent, child, compat) ==
    NextCompatLoop(nodes, nodes[parent].children, 1,
                   IF child # NULL THEN 1 ELSE 0, child, compat)

\* dt_find_prop_value(parent, name, data, size)
RECURSIVE dt_find_prop_value(_, _, _, _, _)
RECURSIVE PropValueMatch(_, _, _, _, _)
RECURSIVE FindPropValueChildren(_, _, _, _, _, _)

\* The property loop of dt_find_prop_value: does parent itself match.
PropValueMatch(props, i, name, data, size) ==
    IF i > Len(props) THEN FALSE
    ELSE IF StrEq(name, props[i].name)
    THEN size = props[i].size
             /\ SubSeq(data, 1, size) = SubSeq(props[i].data, 1, size)
    ELSE PropValueMatch(props, i + 1, name, data, size)

FindPropValueChildren(nodes, children, i, name, data, size) ==
    IF i > Len(children) THEN NULL
    ELSE LET found == dt_find_prop_value(nodes, children[i], name, data, size)
         IN  IF found # NULL THEN found
             ELSE FindPropValueChildren(nodes, children, i + 1, name, data, size)

\* dt_find_prop_value that gives up on the subtree of a node whose property
\* called name has another value.
RECURSIVE dt_find_prop_value_SkipSubtree(_, _, _, _, _)
dt_find_prop_value_SkipSubtree(nodes, parent, name, data, size) ==
    LET RECURSIVE children(_)
        children(i) ==
            IF i > Len(nodes[parent].children) THEN NULL
            ELSE LET found == dt_find_prop_value_SkipSubtree(
                                  nodes, nodes[parent].children[i], name, data, size)
                 IN  IF found # NULL THEN found ELSE children(i + 1)
    IN  IF PropValueMatch(nodes[parent].properties, 1, name, data, size) THEN parent
        ELSE IF \E i \in 1..Len(nodes[parent].properties) :
                    StrEq(name, nodes[parent].properties[i].name)
        THEN NULL
        ELSE children(1)

dt_find_prop_value(nodes, parent, name, data, size) ==
    IF PropValueMatch(nodes[parent].properties, 1, name, data, size) THEN parent
    ELSE FindPropValueChildren(nodes, nodes[parent].children, 1, name, data, size)

\* dt_write_int that puts the least-significant byte first.
RECURSIVE dt_write_int_LsbFirst(_, _, _, _)
dt_write_int_LsbFirst(buf, off, src, length) ==
    IF length = 0 THEN buf
    ELSE dt_write_int_LsbFirst([buf EXCEPT ![off + 1] = src[4] % 256],
                               off + 1, Shr8(src), length - 1)

\* dt_write_int(dest, src, length): the buffer dest points into, after the
\* call; dest is at offset off of buf.
RECURSIVE dt_write_int(_, _, _, _)
dt_write_int(buf, off, src, length) ==
    IF length = 0 THEN buf
    ELSE dt_write_int([buf EXCEPT ![off + (length - 1) + 1] = src[4] % 256],
                      off, Shr8(src), length - 1)

\* The index of the first property called name, or 0.
RECURSIVE FindProp(_, _, _)
FindProp(props, i, name) ==
    IF i > Len(props) THEN 0
    ELSE IF StrEq(props[i].name, name) THEN i
    ELSE FindProp(props, i + 1, name)

\* dt_add_bin_prop that allocates a property on every call.
dt_add_bin_prop_Append(h, node, name, data, size) ==
    LET a == alloc_prop(h)
        prop == [a.prop EXCEPT !.name = name, !.data = data, !.size = size]
    IN  [a.h EXCEPT !.nodes[node].properties = list_insert_after(@, prop, 0)]

\* dt_add_bin_prop that inserts a new property after the last one.
dt_add_bin_prop_Last(h, node, name, data, size) ==
    LET i == FindProp(h.nodes[node].properties, 1, name)
    IN  IF i # 0
        THEN [h EXCEPT !.nodes[node].properties[i].data = data,
                       !.nodes[node].properties[i].size = size]
        ELSE LET a == alloc_prop(h)
                 prop == [a.prop EXCEPT !.name = name, !.data = data, !.size = size]
             IN  [a.h EXCEPT !.nodes[node].properties =
                                 list_insert_after(@, prop, Len(@))]

\* dt_add_bin_prop(node, name, data, size): the heap after the call.
dt_add_bin_prop(h, node, name, data, size) ==
    LET i == FindProp(h.nodes[node].properties, 1, name)
    IN  IF i # 0
        THEN [h EXCEPT !.nodes[node].properties[i].data = data,
                       !.nodes[node].properties[i].size = size]
        ELSE LET a == alloc_prop(h)
                 prop == [a.prop EXCEPT !.name = name, !.data = data, !.size = size]
             IN  [a.h EXCEPT !.nodes[node].properties =
                                 list_insert_after(@, prop, 0)]

\* dt_find_bin_prop(node, name, &data, &size): [data, size]; data is NULL
\* when there is no such property.
dt_find_bin_prop(nodes, node, name) ==
    LET i == FindProp(nodes[node].properties, 1, name)
    IN  IF i = 0 THEN [data |-> NULL, size |-> 0]
        ELSE [data |-> nodes[node].properties[i].data,
              size |-> nodes[node].properties[i].size]

\* dt_add_string_prop(node, name, str)
dt_add_string_prop(h, node, name, str) ==
    dt_add_bin_prop(h, node, name, str \o <<0>>, strlen(str) + 1)

\* dt_add_u32_prop(node, name, val)
dt_add_u32_prop(h, node, name, val) ==
    dt_add_bin_prop(h, node, name, htobe32(val), 4)

\* xmalloc(length): memory whose bytes are not initialized (shown as 0xAA).
xmalloc(length) == [i \in 1..length |-> 170]

\* The for loop of dt_add_reg_prop: data after entries i .. count - 1 are
\* written from cur on.
RECURSIVE RegLoop(_, _, _, _, _, _, _, _)
RegLoop(data, cur, addrs, sizes, i, count, addr_cells, size_cells) ==
    IF i >= count THEN data
    ELSE LET d1 == dt_write_int(data, cur, addrs[i + 1], addr_cells * 4)
             d2 == dt_write_int(d1, cur + addr_cells * 4, sizes[i + 1], size_cells * 4)
         IN  RegLoop(d2, cur + addr_cells * 4 + size_cells * 4, addrs, sizes,
                     i + 1, count, addr_cells, size_cells)

\* dt_add_reg_prop(node, addrs, sizes, count, addr_cells, size_cells)
dt_add_reg_prop(h, node, addrs, sizes, count, addr_cells, size_cells) ==
    LET length == (addr_cells + size_cells) * 4 * count
        data == RegLoop(xmalloc(length), 0, addrs, sizes, 0, count,
                        addr_cells, size_cells)
    IN  dt_add_bin_prop(h, node, Reg, data, length)

\* ------------------------------------------------------------------------
\* Fixups to apply to a kernel's device tree before booting it
\* ------------------------------------------------------------------------

\* A DeviceTreeFixup is [tag, fixup, name, val, rc]: fixup is the callback
\* pointer (NULL or not); the callback sets the u32 property name of the
\* root to val and returns rc.

\* fixup->fixup(fixup, tree): [h, rc].
CallFixup(fixup, h, tree) ==
    [h |-> dt_add_u32_prop(h, tree.root, fixup.name, fixup.val), rc |-> fixup.rc]

\* list_insert_after(&fixup->list_node, last node of device_tree_fixups)
RegisterFixupAtEnd(fixups, fixup) == list_insert_after(fixups, fixup, Len(fixups))

\* The value of ret while dt_apply_fixups has not returned.
NoRet == -1

\* dt_apply_fixups that goes on after a fixup failed and reports the
\* failure at the end.
RECURSIVE ApplyAll(_, _, _, _, _, _)
ApplyAll(h, tree, fixups, i, invoked, ret) ==
    IF i > Len(fixups) THEN [h |-> h, invoked |-> invoked, ret |-> ret, aborted |-> FALSE]
    ELSE IF fixups[i].fixup = NULL
    THEN [h |-> h, invoked |-> invoked, ret |-> NoRet, aborted |-> TRUE]
    ELSE LET r == CallFixup(fixups[i], h, tree)
         IN  ApplyAll(r.h, tree, fixups, i + 1, Append(invoked, fixups[i].tag),
                      IF r.rc # 0 THEN 1 ELSE ret)

dt_apply_fixups_KeepGoing(h, tree, fixups) == ApplyAll(h, tree, fixups, 1, <<>>, 0)

\* The list_for_each loop of dt_apply_fixups from the i-th fixup on:
\* [h, invoked, ret, aborted], invoked the tags of the fixups called so far,
\* aborted the failure of assert(fixup->fixup).
RECURSIVE ApplyLoop(_, _, _, _, _)
ApplyLoop(h, tree, fixups, i, invoked) ==
    IF i > Len(fixups) THEN [h |-> h, invoked |-> invoked, ret |-> 0, aborted |-> FALSE]
    ELSE IF fixups[i].fixup = NULL
    THEN [h |-> h, invoked |-> invoked, ret |-> NoRet, aborted |-> TRUE]
    ELSE LET r == CallFixup(fixups[i], h, tree)
             inv == Append(invoked, fixups[i].tag)
         IN  IF r.rc # 0
             THEN [h |-> r.h, invoked |-> inv, ret |-> 1, aborted |-> FALSE]
             ELSE ApplyLoop(r.h, tree, fixups, i + 1, inv)

\* dt_apply_fixups(tree)
dt_apply_fixups(h, tree, fixups) == ApplyLoop(h, tree, fixups, 1, <<>>)

\* ------------------------------------------------------------------------
\* The firmware-supplied blobs the boot runs on (the inputs of the model)
\* ------------------------------------------------------------------------

\* s followed by zero bytes up to the next multiple of 4.
Pad4(s) == s \o [i \in 1..((4 - (Len(s) % 4)) % 4) |-> 0]

\* The tokens of the structure block, as the flattened format lays them out.
FdtBeginNode(name) == htobe32(TokenBeginNode) \o Pad4(name \o <<0>>)
FdtProp(name_offset, data) ==
    htobe32(TokenProperty) \o htobe32(Len(data)) \o htobe32(name_offset) \o Pad4(data)
FdtEndNode == htobe32(TokenEndNode)
FdtEnd == htobe32(TokenEnd)

\* One 16-byte (start, size) pair of the reserve map.
FdtPair(start, size) == htobe64(start) \o htobe64(size)

\* The concatenation of a sequence of byte sequences.
RECURSIVE Concat(_)
Concat(ss) == IF ss = <<>> THEN <<>> ELSE Head(ss) \o Concat(Tail(ss))

\* A blob: the 40-byte FdtHeader (magic 0xd00dfeed, version 17, last
\* compatible version 16, boot cpu 0), extra opaque header bytes, then the
\* three sections in the given order ("rsv", "struct", "strings").
MkBlob(extra, order, rsv, struct, strings) ==
    LET hsize == 40 + Len(extra)
        len(sec) == CASE sec = "rsv" -> Len(rsv)
                      [] sec = "struct" -> Len(struct)
                      [] sec = "strings" -> Len(strings)
        sect(sec) == CASE sec = "rsv" -> rsv
                       [] sec = "struct" -> struct
                       [] sec = "strings" -> strings
        pos(sec) == IF order[1] = sec THEN hsize
                    ELSE IF order[2] = sec THEN hsize + len(order[1])
                    ELSE hsize + len(order[1]) + len(order[2])
        total == hsize + Len(rsv) + Len(struct) + Len(strings)
    IN  <<208, 13, 254, 237>> \o htobe32(total)
          \o htobe32(pos("struct")) \o htobe32(pos("strings")) \o htobe32(pos("rsv"))
          \o htobe32(17) \o htobe32(16) \o htobe32(0)
          \o htobe32(Len(strings)) \o htobe32(Len(struct) - 4)
          \o extra
          \o sect(order[1]) \o sect(order[2]) \o sect(order[3])

\* Node and property names used by the inputs: "a", "b", "c", "d", "e",
\* "x", "X", "Y", "Z", "G"; compatible strings "foo", "bar", "baz".
NameA == <<97>>
NameB == <<98>>
NameC == <<99>>
NameD == <<100>>
NameE == <<101>>
NameX == <<120>>
NodeX == <<88>>
NodeY == <<89>>
NodeZ == <<90>>
NodeG == <<71>>
Foo == <<102, 111, 111>>
Bar == <<98, 97, 114>>
Baz == <<98, 97, 122>>

\* / { #address-cells = <2>; x = [01 02 03];
\*     a { #address-cells = <1>; b { }; };
\*     c { e; }; };
StringsBoard == AddressCells \o <<0>> \o NameX \o <<0>> \o NameE \o <<0>>
StructBoard ==
    Concat(<< FdtBeginNode(<<>>),
              FdtProp(0, <<0, 0, 0, 2>>),
              FdtProp(15, <<1, 2, 3>>),
              FdtBeginNode(NameA),
                FdtProp(0, <<0, 0, 0, 1>>),
                FdtBeginNode(NameB), FdtEndNode,
              FdtEndNode,
              FdtBeginNode(NameC),
                FdtProp(17, <<>>),
              FdtEndNode,
              FdtEndNode, FdtEnd >>)

\* / { X { compatible = "foo"; };
\*     Y { compatible = "bar"; G { compatible = "baz"; }; };
\*     Z { compatible = "foo", "baz"; }; };
StringsCompat == Compatible \o <<0>>
StructCompat ==
    Concat(<< FdtBeginNode(<<>>),
              FdtBeginNode(NodeX), FdtProp(0, Foo \o <<0>>), FdtEndNode,
              FdtBeginNode(NodeY), FdtProp(0, Bar \o <<0>>),
                FdtBeginNode(NodeG), FdtProp(0, Baz \o <<0>>), FdtEndNode,
              FdtEndNode,
              FdtBeginNode(NodeZ), FdtProp(0, Foo \o <<0>> \o Baz \o <<0>>), FdtEndNode,
              FdtEndNode, FdtEnd >>)

\* / { x = [09]; };
StringsTiny == NameX \o <<0>>
StructTiny ==
    Concat(<< FdtBeginNode(<<>>), FdtProp(0, <<9>>), FdtEndNode, FdtEnd >>)

\* Reserved ranges.
Range1 == [start |-> <<0, 0, 0, 4096>>, size |-> <<0, 0, 0, 512>>]
Range2 == [start |-> <<65535, 1, 32768, 0>>, size |-> <<0, 2, 0, 255>>]
Sentinel == FdtPair(U64Zero, U64Zero)

Canonical == <<"rsv", "struct", "strings">>

\* The usual layout, one reserved range.
BlobBoard ==
    MkBlob(<<>>, Canonical, FdtPair(Range1.start, Range1.size) \o Sentinel,
           StructBoard, StringsBoard)

\* A header with 8 bytes this code does not know, an empty reserve map.
BlobCompat ==
    MkBlob(<<222, 173, 190, 239, 1, 2, 3, 4>>, Canonical, Sentinel,
           StructCompat, StringsCompat)

\* The structure block first, then the reserve map, then the strings.
BlobReordered ==
    MkBlob(<<>>, <<"struct", "rsv", "strings">>,
           FdtPair(Range1.start, Range1.size) \o FdtPair(Range2.start, Range2.size)
               \o Sentinel,
           StructTiny, StringsTiny)

\* A pair of size zero and nonzero start ends the map; a pair follows it.
BlobSentinel ==
    MkBlob(<<>>, Canonical,
           FdtPair(Range1.start, Range1.size) \o FdtPair(Range2.start, U64Zero)
               \o FdtPair(Range2.start, Range2.size) \o Sentinel,
           StructTiny, StringsTiny)

\* The first pair is all zero; a pair follows it.
BlobEmptyMap ==
    MkBlob(<<>>, Canonical,
           Sentinel \o FdtPair(Range2.start, Range2.size) \o Sentinel,
           StructTiny, StringsTiny)

InputBlobs == {BlobBoard, BlobCompat, BlobReordered, BlobSentinel, BlobEmptyMap}

\* What the boot code passes to the navigator and the mutators.
Paths == {<<>>, <<NameA, NameB>>, <<NameD, NameB>>, <<NameC, NameB>>}
BinNames == {NameX, NameE}
BinData == {<<>>, <<17, 34, 51, 68>>, <<1, 2, 3, 4, 5, 6, 7, 8>>}
U32Values == {16909060}
Strings == {Foo}
\* <<addrs, sizes, count, addr_cells, size_cells>>
RegCalls ==
    { << << <<0, 0, 0, 4096>> >>, << <<0, 0, 0, 512>> >>, 1, 2, 1 >>,
      << << <<4660, 22136, 39612, 57072>>, <<0, 0, 1, 2>> >>,
         << <<65535, 65535, 0, 256>>, <<0, 0, 0, 0>> >>, 2, 1, 1 >>,
      << << <<258, 772, 1286, 1800>> >>, << <<0, 0, 0, 0>> >>, 1, 3, 0 >> }
\* The fixups board code registers: two that succeed, one that sets its
\* property and fails, one whose callback pointer is NULL.
FixupX == [tag |-> 1, fixup |-> 1, name |-> NameX, val |-> 1, rc |-> 0]
FixupE == [tag |-> 2, fixup |-> 1, name |-> NameE, val |-> 2, rc |-> 0]
FixupFail == [tag |-> 3, fixup |-> 1, name |-> NameA, val |-> 3, rc |-> 5]
FixupNull == [tag |-> 4, fixup |-> NULL, name |-> <<>>, val |-> 0, rc |-> 0]
Fixups == {FixupX, FixupE, FixupFail, FixupNull}
\* The bytes the destination buffer of dt_flatten holds before the call.
FillBytes == {0, 255}

\* ------------------------------------------------------------------------
\* The boot: fdt_unflatten, calls on the tree, dt_flatten
\* ------------------------------------------------------------------------

\* ------------------------------------------------------------------------
\* The NVMe driver (drivers/storage/nvme.c): the I/O queue pair
\* ------------------------------------------------------------------------

\* NVME_STATUS values, and NVME_ERROR(status).
NVME_SUCCESS == "NVME_SUCCESS"
NVME_TIMEOUT == "NVME_TIMEOUT"
NVME_INVALID_PARAMETER == "NVME_INVALID_PARAMETER"
NVME_ERROR(status) == status # NVME_SUCCESS

\* ctrlr->iosq_sz and NVME_CCQ_SIZE, the entries of the I/O queues, and
\* max_transfer_blocks of the drive.
QueueSize == 3
MaxTransferBlocks == 2

\* The NvmeCtrlr fields of the I/O queue and, with them, the controller
\* itself: db is the tail the SQ doorbell register was last given, hw_head
\* the submission-queue head of the controller, budget the number of
\* commands the controller still completes before it stalls; queued and
\* polled count the commands submitted and the completions polled.
\* The controller completes a command when the driver waits for it.
NvmeCtrlrAtInit ==
    [sq_t_dbl |-> 0, cq_h_dbl |-> 0, sqhd |-> 0, cid |-> 0, pt |-> 0,
     db |-> 0, hw_head |-> 0, budget |-> 0, queued |-> 0, polled |-> 0]

\* nvme_submit_cmd(ctrlr, qid, sqsize): [c, status]
nvme_submit_cmd(c, sqsize) ==
    [c |-> [c EXCEPT !.sq_t_dbl = IF c.sq_t_dbl + 1 > sqsize - 1 THEN 0 ELSE c.sq_t_dbl + 1,
                     !.queued = @ + 1],
     status |-> NVME_SUCCESS]

\* nvme_ring_sq_doorbell(ctrlr, qid): the controller after the call.
nvme_ring_sq_doorbell(c) == [c EXCEPT !.db = c.sq_t_dbl]

\* The while (ncmds--) loop of nvme_complete_cmds_polled: [c, status].
\* WAIT_WHILE ends with a phase change when the controller completes the
\* next command it was given, and with a timeout when it has none or
\* stalls.
RECURSIVE PollLoop(_, _, _)
PollLoop(c, ncmds, cqsize) ==
    IF ncmds = 0 THEN [c |-> c, status |-> NVME_SUCCESS]
    ELSE IF c.hw_head = c.db \/ c.budget = 0
    THEN [c |-> c, status |-> NVME_TIMEOUT]
    ELSE LET head == (c.hw_head + 1) % QueueSize
             wrap == c.cq_h_dbl + 1 > cqsize - 1
         IN  PollLoop([c EXCEPT !.hw_head = head,
                                !.budget = @ - 1,
                                !.cq_h_dbl = IF wrap THEN 0 ELSE @ + 1,
                                !.pt = IF wrap THEN 1 - @ ELSE @,
                                !.sqhd = head,
                                !.polled = @ + 1],
                      ncmds - 1, cqsize)

\* nvme_complete_cmds_polled(ctrlr, qid, cqsize, timeout_ms): [c, status]
nvme_complete_cmds_polled(c, cqsize) ==
    LET ncmds == IF c.cq_h_dbl < c.sq_t_dbl
                 THEN c.sq_t_dbl - c.cq_h_dbl
                 ELSE (cqsize - c.cq_h_dbl) + c.sq_t_dbl
        r == PollLoop(c, ncmds, cqsize)
    IN  IF NVME_ERROR(r.status) THEN r
        ELSE [c |-> IF r.c.sq_t_dbl = r.c.sqhd THEN [r.c EXCEPT !.cid = 0] ELSE r.c,
              status |-> NVME_SUCCESS]

\* nvme_fill_prp(prp_list, prp, buffer, size): the status; fit is the number
\* of blocks of the buffer that one PRP list has room for.
nvme_fill_prp(count, fit) ==
    IF count > fit THEN NVME_INVALID_PARAMETER ELSE NVME_SUCCESS

\* nvme_internal_read(drive, buffer, start, count): [c, status]
nvme_internal_read(c, count, fit) ==
    IF count = 0 THEN [c |-> c, status |-> NVME_INVALID_PARAMETER]
    ELSE LET full == (c.sq_t_dbl + 1) % QueueSize = c.sqhd
             p == IF full THEN nvme_complete_cmds_polled(nvme_ring_sq_doorbell(c), QueueSize)
                  ELSE [c |-> c, status |-> NVME_SUCCESS]
         IN  IF NVME_ERROR(p.status) THEN p
             ELSE LET c1 == [p.c EXCEPT !.cid = @ + 1]
                      status == nvme_fill_prp(count, fit)
                  IN  IF NVME_ERROR(status) THEN [c |-> c1, status |-> status]
                      ELSE nvme_submit_cmd(c1, QueueSize)

\* nvme_internal_write(drive, buffer, start, count): [c, status]
nvme_internal_write(c, count, fit) ==
    IF count = 0 THEN [c |-> c, status |-> NVME_INVALID_PARAMETER]
    ELSE LET full == (c.sq_t_dbl + 1) % QueueSize = c.sqhd
             p == IF full THEN nvme_complete_cmds_polled(nvme_ring_sq_doorbell(c), QueueSize)
                  ELSE [c |-> c, status |-> NVME_SUCCESS]
         IN  IF NVME_ERROR(p.status) THEN p
             ELSE LET c1 == [p.c EXCEPT !.cid = @ + 1]
                      status == nvme_fill_prp(count, fit)
                  IN  IF NVME_ERROR(status) THEN [c |-> c1, status |-> status]
                      ELSE nvme_submit_cmd(c1, QueueSize)

\* The value (lba_t)-1 nvme_read and nvme_write return for an error.
NvmeFailed == -1

\* The while (count > 0) loop of nvme_read: [c, status, count].
RECURSIVE ReadLoop(_, _, _, _)
ReadLoop(c, count, fit, status) ==
    IF count = 0 \/ NVME_ERROR(status) THEN [c |-> c, status |-> status, count |-> count]
    ELSE IF count > MaxTransferBlocks
    THEN LET r == nvme_internal_read(c, MaxTransferBlocks, fit)
         IN  ReadLoop(r.c, count - MaxTransferBlocks, fit, r.status)
    ELSE LET r == nvme_internal_read(c, count, fit)
         IN  ReadLoop(r.c, 0, fit, r.status)

\* nvme_read(me, start, count, buffer): [c, ret, status, final], status
\* being the one of the loop and final the one of the last poll ("none"
\* when the call returned before it).
nvme_read(c, orig_count, fit) ==
    LET l == ReadLoop(c, orig_count, fit, NVME_SUCCESS)
    IN  IF NVME_ERROR(l.status)
        THEN [c |-> l.c, ret |-> NvmeFailed, status |-> l.status, final |-> "none"]
        ELSE LET p == nvme_complete_cmds_polled(nvme_ring_sq_doorbell(l.c), QueueSize)
             IN  [c |-> p.c, ret |-> orig_count - l.count, status |-> l.status,
                  final |-> p.status]

\* The while (count > 0) loop of nvme_write: [c, status, count].
RECURSIVE WriteLoop(_, _, _, _)
WriteLoop(c, count, fit, status) ==
    IF count = 0 \/ NVME_ERROR(status) THEN [c |-> c, status |-> status, count |-> count]
    ELSE IF count > MaxTransferBlocks
    THEN LET r == nvme_internal_write(c, MaxTransferBlocks, fit)
         IN  WriteLoop(r.c, count - MaxTransferBlocks, fit, r.status)
    ELSE LET r == nvme_internal_write(c, count, fit)
         IN  WriteLoop(r.c, 0, fit, r.status)

\* nvme_write(me, start, count, buffer): [c, ret, status, final]
nvme_write(c, orig_count, fit) ==
    LET l == WriteLoop(c, orig_count, fit, NVME_SUCCESS)
    IN  IF NVME_ERROR(l.status)
        THEN [c |-> l.c, ret |-> NvmeFailed, status |-> l.status, final |-> "none"]
        ELSE LET p == nvme_complete_cmds_polled(nvme_ring_sq_doorbell(l.c), QueueSize)
             IN  [c |-> p.c, ret |-> orig_count - l.count, status |-> l.status,
                  final |-> p.status]

\* ------------------------------------------------------------------------
\* The kernel command line (boot/commandline.c)
\* ------------------------------------------------------------------------

\* A C string is the sequence of its characters before the NUL; At is
\* src[i - 1], the NUL behind the last character included.
At(src, i) == IF i > Len(src) THEN 0 ELSE src[i]

\* itoa(dest, val): the characters stored.
itoa(val) ==
    IF val > 9 THEN <<48 + (val \div 10), 48 + (val % 10)>> ELSE <<48 + (val % 10)>>

\* "0123456789abcdef"
HexDigits == <<48, 49, 50, 51, 52, 53, 54, 55, 56, 57, 97, 98, 99, 100, 101, 102>>

\* one_byte(dest, val): the two characters stored.
one_byte(val) == <<HexDigits[((val \div 16) % 16) + 1], HexDigits[(val % 16) + 1]>>

\* emit_guid(dest, guid): the 36 characters stored; guid[i] of the code is
\* guid[i + 1] here.
emit_guid(guid) ==
    one_byte(guid[4]) \o one_byte(guid[3]) \o one_byte(guid[2]) \o one_byte(guid[1])
    \o <<45>> \o one_byte(guid[6]) \o one_byte(guid[5])
    \o <<45>> \o one_byte(guid[8]) \o one_byte(guid[7])
    \o <<45>> \o one_byte(guid[9]) \o one_byte(guid[10])
    \o <<45>> \o one_byte(guid[11]) \o one_byte(guid[12]) \o one_byte(guid[13])
    \o one_byte(guid[14]) \o one_byte(guid[15]) \o one_byte(guid[16])

\* The string literals of commandline_subst.
cros_secure == <<99, 114, 111, 115, 95, 115, 101, 99, 117, 114, 101, 32>>
UbiblockStart == <<47, 100, 101, 118, 47, 117, 98, 105, 98, 108, 111, 99, 107>>
UbiblockEnd == <<95, 48>>
PartuuidStart == <<80, 65, 82, 84, 85, 85, 73, 68, 61>>
PartuuidEnd == <<47, 80, 65, 82, 84, 78, 82, 79, 70, 70, 61, 49>>

\* The weak mainboard_commandline(): NULL.
mainboard_commandline == [null |-> TRUE, str |-> <<>>]

\* CHECK_SPACE(bytes) passes: dest + bytes <= dest_end, dest being
\* Len(text) bytes behind the start of the buffer.
CHECK_SPACE(text, bytes, dest_size) == Len(text) + bytes <= dest_size

\* The while ((c = *src++)) loop of commandline_subst and the store of the
\* NUL behind it: [ret, text, nul], text being the bytes stored from
\* dest[0] on and nul telling that dest[Len(text)] was given the NUL.
RECURSIVE SubstLoop(_, _, _, _, _)
SubstLoop(src, i, text, dest_size, info) ==
    LET c == At(src, i)
        d == At(src, i + 1)
        fail == [ret |-> 1, text |-> text, nul |-> FALSE]
        devnum == info.devnum
        partnum == info.partnum
    IN  IF c = 0 THEN [ret |-> 0, text |-> text, nul |-> TRUE]
        ELSE IF c # 37
        THEN IF ~CHECK_SPACE(text, 2, dest_size) THEN fail
             ELSE SubstLoop(src, i + 1, Append(text, c), dest_size, info)
        ELSE IF d = 0 THEN fail
        ELSE IF d = 68
        THEN IF devnum < 0 \/ devnum > 25 THEN fail
             ELSE IF At(src, i + 2) = 112
             THEN IF ~CHECK_SPACE(text, 3, dest_size) THEN fail
                  ELSE SubstLoop(src, i + 2, text \o itoa(devnum), dest_size, info)
             ELSE IF ~CHECK_SPACE(text, 2, dest_size) THEN fail
                  ELSE SubstLoop(src, i + 2, Append(text, 97 + devnum), dest_size, info)
        ELSE IF d = 80
        THEN IF partnum < 1 \/ partnum > 99 THEN fail
             ELSE IF ~CHECK_SPACE(text, 3, dest_size) THEN fail
             ELSE SubstLoop(src, i + 2, text \o itoa(partnum), dest_size, info)
        ELSE IF d = 85
        THEN IF ~CHECK_SPACE(text, 36 + 1, dest_size) THEN fail
             ELSE SubstLoop(src, i + 2, text \o emit_guid(info.guid), dest_size, info)
        ELSE IF d = 82
        THEN IF info.external_gpt # 0
             THEN IF partnum < 1 \/ partnum > 99 THEN fail
                  ELSE IF ~CHECK_SPACE(text, Len(UbiblockStart) + 3 + Len(UbiblockEnd), dest_size)
                  THEN fail
                  ELSE SubstLoop(src, i + 2,
                                 text \o UbiblockStart \o itoa(partnum) \o UbiblockEnd,
                                 dest_size, info)
             ELSE IF ~CHECK_SPACE(text, Len(PartuuidStart) + 36 + 1 + Len(PartuuidEnd), dest_size)
                  THEN fail
                  ELSE SubstLoop(src, i + 2,
                                 text \o PartuuidStart \o emit_guid(info.guid) \o PartuuidEnd,
                                 dest_size, info)
        ELSE IF ~CHECK_SPACE(text, 3, dest_size) THEN fail
             ELSE SubstLoop(src, i + 2, text \o <<37, d>>, dest_size, info)

\* commandline_subst(src, dest, dest_size, info), mainboard_cmdline being
\* what mainboard_commandline() returns on the board: [ret, text, nul]
commandline_subst(src, dest_size, info, mainboard_cmdline) ==
    IF dest_size > 10000 THEN [ret |-> 1, text |-> <<>>, nul |-> FALSE]
    ELSE IF ~CHECK_SPACE(<<>>, Len(cros_secure), dest_size)
    THEN [ret |-> 1, text |-> <<>>, nul |-> FALSE]
    ELSE IF ~mainboard_cmdline.null /\ Len(mainboard_cmdline.str) > 0
    THEN IF ~CHECK_SPACE(cros_secure, Len(mainboard_cmdline.str), dest_size)
         THEN [ret |-> 1, text |-> cros_secure, nul |-> FALSE]
         ELSE SubstLoop(src, 1, cros_secure \o mainboard_cmdline.str, dest_size, info)
    ELSE SubstLoop(src, 1, cros_secure, dest_size, info)

VARIABLES
    blob,               \* the flattened tree the firmware supplied
    pc,                 \* "start", "tree" (unflattened), "flat" (flattened)
    tree,               \* the DeviceTree: [header_size, reserve_map, root]
    nodes,              \* the arena of DeviceTreeNode records
    node_counter,       \* static int node_counter
    prop_counter,       \* static int prop_counter
    cur,                \* the node the boot code holds (from dt_find_node)
    ops,                \* calls made on the tree so far
    last,               \* the last call: [op, args, ret, cells]
    prev,               \* the call before the last one
    out,                \* dt_flatten's destination and cursors
    device_tree_fixups, \* ListNode device_tree_fixups: the registered fixups
    invoked,            \* the tags of the fixups dt_apply_fixups has called
    slots,              \* the storage of the records handed out so far
    ctrlr,              \* the NvmeCtrlr and its controller
    dest                \* commandline_subst's destination buffer

vars == <<blob, pc, tree, nodes, node_counter, prop_counter, cur, ops, last, prev,
          out, device_tree_fixups, invoked, slots, ctrlr, dest>>

Heap == [nodes |-> nodes, node_counter |-> node_counter, prop_counter |-> prop_counter,
         slots |-> slots]

NoSlots == [node |-> <<>>, prop |-> <<>>]

NoTree == [header_size |-> 0, reserve_map |-> <<>>, root |-> NULL]
NoCall == [op |-> "none", args |-> <<>>, ret |-> NULL, cells |-> <<>>]
NoOut == [buf |-> <<>>, hi |-> 0, struct_end |-> 0, strings_end |-> 0, dest |-> 0]
NoCtrlr == NvmeCtrlrAtInit
NoDest == [size |-> 0, text |-> <<>>, nul |-> FALSE]

Init ==
    /\ blob \in InputBlobs
    /\ pc = "start"
    /\ tree = NoTree
    /\ nodes = <<>>
    /\ node_counter = 0
    /\ prop_counter = 0
    /\ cur = NULL
    /\ ops = 0
    /\ last = NoCall
    /\ prev = NoCall
    /\ out = NoOut
    /\ device_tree_fixups = <<>>
    /\ invoked = <<>>
    /\ slots = NoSlots
    /\ ctrlr = NoCtrlr
    /\ dest = NoDest

SetHeap(h) ==
    /\ nodes' = h.nodes
    /\ node_counter' = h.node_counter
    /\ prop_counter' = h.prop_counter
    /\ slots' = h.slots

\* tree = fdt_unflatten(blob)
Unflatten ==
    /\ pc = "start"
    /\ LET r == fdt_unflatten(blob, Heap)
       IN  /\ tree' = r.tree
           /\ SetHeap(r.h)
           /\ cur' = r.tree.root
           /\ last' = [op |-> "fdt_unflatten", args |-> <<>>, ret |-> r.tree.root,
                       cells |-> <<>>]
    /\ pc' = "tree"
    /\ prev' = last
    /\ UNCHANGED <<blob, ops, out, device_tree_fixups, invoked>>
    /\ UNCHANGED <<ctrlr, dest>>

\* cur = dt_find_node(tree->root, path, &addrc, &sizec, create), with addrc
\* and sizec 0 before the call; a NULL result leaves cur as it is.
FindNode(path, create) ==
    /\ pc = "tree" /\ ops < MaxOps
    /\ LET r == dt_find_node(Heap, tree.root, path, [addr |-> 0, size |-> 0], create)
       IN  /\ SetHeap(r.h)
           /\ cur' = IF r.node # NULL THEN r.node ELSE cur
           /\ last' = [op |-> "dt_find_node", args |-> <<tree.root, path, create>>,
                       ret |-> r.node, cells |-> r.cells]
    /\ ops' = ops + 1
    /\ prev' = last
    /\ UNCHANGED <<blob, pc, tree, out, device_tree_fixups, invoked>>
    /\ UNCHANGED <<ctrlr, dest>>

\* dt_add_bin_prop(cur, name, data, size)
AddBinProp(name, data) ==
    /\ pc = "tree" /\ ops < MaxOps
    /\ SetHeap(dt_add_bin_prop(Heap, cur, name, data, Len(data)))
    /\ last' = [op |-> "dt_add_bin_prop", args |-> <<cur, name, data, Len(data)>>,
                ret |-> NULL, cells |-> <<>>]
    /\ ops' = ops + 1
    /\ prev' = last
    /\ UNCHANGED <<blob, pc, tree, cur, out, device_tree_fixups, invoked>>
    /\ UNCHANGED <<ctrlr, dest>>

\* dt_add_string_prop(cur, "compatible", str)
AddStringProp(str) ==
    /\ pc = "tree" /\ ops < MaxOps
    /\ SetHeap(dt_add_string_prop(Heap, cur, Compatible, str))
    /\ last' = [op |-> "dt_add_string_prop", args |-> <<cur, Compatible, str>>,
                ret |-> NULL, cells |-> <<>>]
    /\ ops' = ops + 1
    /\ prev' = last
    /\ UNCHANGED <<blob, pc, tree, cur, out, device_tree_fixups, invoked>>
    /\ UNCHANGED <<ctrlr, dest>>

\* dt_add_u32_prop(cur, "x", val)
AddU32Prop(val) ==
    /\ pc = "tree" /\ ops < MaxOps
    /\ SetHeap(dt_add_u32_prop(Heap, cur, NameX, val))
    /\ last' = [op |-> "dt_add_u32_prop", args |-> <<cur, NameX, val>>,
                ret |-> NULL, cells |-> <<>>]
    /\ ops' = ops + 1
    /\ prev' = last
    /\ UNCHANGED <<blob, pc, tree, cur, out, device_tree_fixups, invoked>>
    /\ UNCHANGED <<ctrlr, dest>>

\* dt_add_reg_prop(cur, addrs, sizes, count, addr_cells, size_cells)
AddRegProp(c) ==
    /\ pc = "tree" /\ ops < MaxOps
    /\ SetHeap(dt_add_reg_prop(Heap, cur, c[1], c[2], c[3], c[4], c[5]))
    /\ last' = [op |-> "dt_add_reg_prop", args |-> <<cur>> \o c,
                ret |-> NULL, cells |-> <<>>]
    /\ ops' = ops + 1
    /\ prev' = last
    /\ UNCHANGED <<blob, pc, tree, cur, out, device_tree_fixups, invoked>>
    /\ UNCHANGED <<ctrlr, dest>>

\* dt_flatten(tree, buffer), buffer being dt_flat_size(tree) bytes that all
\* hold fill before the call.
Flatten(fill) ==
    /\ pc = "tree"
    /\ out' = dt_flatten(tree, blob, nodes,
                         [i \in 1..dt_flat_size(tree, nodes) |-> fill])
    /\ last' = [op |-> "dt_flatten", args |-> <<fill>>, ret |-> NULL, cells |-> <<>>]
    /\ pc' = "flat"
    /\ prev' = last
    /\ UNCHANGED <<blob, tree, nodes, node_counter, prop_counter, cur, ops,
                   device_tree_fixups, invoked, slots>>
    /\ UNCHANGED <<ctrlr, dest>>

\* A fixup that is not yet in the list is registered, at the end of the list.
RegisterFixup(fixup) ==
    /\ pc \in {"start", "tree"}
    /\ Len(device_tree_fixups) < MaxFixups
    /\ \A i \in 1..Len(device_tree_fixups) : device_tree_fixups[i] # fixup
    /\ device_tree_fixups' = RegisterFixupAtEnd(device_tree_fixups, fixup)
    /\ UNCHANGED <<blob, pc, tree, nodes, node_counter, prop_counter, cur, ops, last,
                   prev, out, invoked, slots>>
    /\ UNCHANGED <<ctrlr, dest>>

\* ret = dt_apply_fixups(tree); a failed assert ends the program ("abort").
ApplyFixups ==
    /\ pc = "tree"
    /\ LET r == dt_apply_fixups(Heap, tree, device_tree_fixups)
       IN  /\ SetHeap(r.h)
           /\ invoked' = r.invoked
           /\ last' = [op |-> "dt_apply_fixups", args |-> <<>>, ret |-> r.ret,
                       cells |-> <<>>]
           /\ pc' = IF r.aborted THEN "abort" ELSE "fixed"
    /\ prev' = last
    /\ UNCHANGED <<blob, tree, cur, ops, out, device_tree_fixups>>
    /\ UNCHANGED <<ctrlr, dest>>

Next ==
    \/ Unflatten
    \/ \E path \in Paths, create \in {0, 1} : FindNode(path, create)
    \/ \E name \in BinNames, data \in BinData : AddBinProp(name, data)
    \/ \E str \in Strings : AddStringProp(str)
    \/ \E val \in U32Values : AddU32Prop(val)
    \/ \E c \in RegCalls : AddRegProp(c)
    \/ \E fill \in FillBytes : Flatten(fill)

Spec == Init /\ [][Next]_vars

\* The boot of a process that has unflattened trees before: the counters
\* start where those trees left them (nothing, three node and two property
\* records short of the cache sizes, both caches used up).
PoolBases ==
    { <<0, 0>>, <<NodeCacheSize - 3, PropCacheSize - 2>>, <<NodeCacheSize, PropCacheSize>> }

InitPool ==
    /\ blob \in InputBlobs
    /\ pc = "start"
    /\ tree = NoTree
    /\ nodes = <<>>
    /\ \E base \in PoolBases : node_counter = base[1] /\ prop_counter = base[2]
    /\ cur = NULL
    /\ ops = 0
    /\ last = NoCall
    /\ prev = NoCall
    /\ out = NoOut
    /\ device_tree_fixups = <<>>
    /\ invoked = <<>>
    /\ slots = NoSlots
    /\ ctrlr = NoCtrlr
    /\ dest = NoDest

\* The calls that allocate: fdt_unflatten, dt_find_node, dt_add_bin_prop.
NextPool ==
    \/ Unflatten
    \/ \E path \in Paths, create \in {0, 1} : FindNode(path, create)
    \/ \E name \in BinNames, data \in BinData : AddBinProp(name, data)

SpecPool == InitPool /\ [][NextPool]_vars

\* The byte strings of at most n bytes over the bytes of alphabet.
RECURSIVE BytesUpTo(_, _)
BytesUpTo(alphabet, n) ==
    IF n = 0 THEN {<<>>}
    ELSE LET shorter == BytesUpTo(alphabet, n - 1)
         IN  shorter \cup {Append(b, c) : b \in shorter, c \in alphabet}

\* The values of a compatible property: up to MaxCompatLen bytes, each "a",
\* "b" or NUL; and the strings looked for.
CompatData == BytesUpTo({97, 98, 0}, MaxCompatLen)
CompatArgs == BytesUpTo({97, 98}, 2)

\* A tree of one node, which has no property, or the property x and then
\* the property compatible with one of the values.
InitCompat ==
    /\ blob = <<>>
    /\ pc = "tree"
    /\ tree = [header_size |-> 0, reserve_map |-> <<>>, root |-> 1]
    /\ \/ nodes = <<ZeroNode>> /\ prop_counter = 0
          /\ slots = [node |-> <<0>>, prop |-> <<>>]
       \/ \E data \in CompatData :
              /\ nodes = << [ZeroNode EXCEPT !.properties =
                                << [name |-> NameX, data |-> <<97, 0>>, size |-> 2],
                                   [name |-> Compatible, data |-> data,
                                    size |-> Len(data)] >>] >>
              /\ prop_counter = 2
              /\ slots = [node |-> <<0>>, prop |-> <<0, 1>>]
    /\ node_counter = 1
    /\ cur = 1
    /\ ops = 0
    /\ last = NoCall
    /\ prev = NoCall
    /\ out = NoOut
    /\ device_tree_fixups = <<>>
    /\ invoked = <<>>
    /\ ctrlr = NoCtrlr
    /\ dest = NoDest

\* ret = dt_check_compat_match(cur, compat)
CheckCompatMatch(compat) ==
    /\ pc = "tree"
    /\ last' = [op |-> "dt_check_compat_match", args |-> <<cur, compat>>,
                ret |-> dt_check_compat_match(nodes, cur, compat), cells |-> <<>>]
    /\ prev' = last
    /\ pc' = "checked"
    /\ UNCHANGED <<blob, tree, nodes, node_counter, prop_counter, cur, ops, out,
                   device_tree_fixups, invoked, slots>>
    /\ UNCHANGED <<ctrlr, dest>>

NextCompat == \E compat \in CompatArgs : CheckCompatMatch(compat)

SpecCompat == InitCompat /\ [][NextCompat]_vars

\* The offsets of the tokens of a structure block, from offset off up to
\* and with the END token.
RECURSIVE TokenOffsets(_, _)
TokenOffsets(buf, off) ==
    LET token == be32toh(buf, off)
    IN  {off} \cup
        IF token = TokenBeginNode
        THEN TokenOffsets(buf, off + 4 + size32(Len(CStr(buf, off + 4)) + 1) * 4)
        ELSE IF token = TokenEndNode THEN TokenOffsets(buf, off + 4)
        ELSE IF token = TokenProperty
        THEN TokenOffsets(buf, off + 12 + size32(be32toh(buf, off + 4)) * 4)
        ELSE {}

\* The heap of a process that has allocated nothing.
EmptyHeap == [nodes |-> <<>>, node_counter |-> 0, prop_counter |-> 0, slots |-> NoSlots]

\* dt_flatten(fdt_unflatten(b)), into a buffer of dt_flat_size bytes that
\* held fill everywhere.
FlatOf(b, fill) ==
    LET u == fdt_unflatten(b, EmptyHeap)
    IN  dt_flatten(u.tree, b, u.h.nodes,
                   [i \in 1..dt_flat_size(u.tree, u.h.nodes) |-> fill]).buf

\* The blobs the reader is called on: the firmware's, and those dt_flatten
\* makes of them.
ReaderBlobs == InputBlobs \cup {FlatOf(b, fill) : b \in InputBlobs, fill \in FillBytes}

\* What the caller's FdtProperty and name pointer hold before a call.
CallerProp == [name |-> <<63>>, data |-> <<63, 63>>, size |-> 2]
CallerName == <<63>>

InitReader ==
    /\ blob \in ReaderBlobs
    /\ pc = "reader"
    /\ tree = NoTree
    /\ nodes = <<>>
    /\ node_counter = 0
    /\ prop_counter = 0
    /\ cur = NULL
    /\ ops = 0
    /\ last = NoCall
    /\ prev = NoCall
    /\ out = NoOut
    /\ device_tree_fixups = <<>>
    /\ invoked = <<>>
    /\ slots = NoSlots
    /\ ctrlr = NoCtrlr
    /\ dest = NoDest

\* The token offsets of the structure block of the blob.
ReaderOffsets == TokenOffsets(blob, be32toh(blob, OffStructureOffset))

\* size = fdt_next_property(blob, offset, &prop)
NextProperty(offset) ==
    /\ pc = "reader"
    /\ LET r == fdt_next_property(blob, offset, CallerProp)
       IN  last' = [op |-> "fdt_next_property", args |-> <<offset>>, ret |-> r.ret,
                    cells |-> <<>>, prop |-> r.prop]
    /\ prev' = last
    /\ pc' = "read"
    /\ UNCHANGED <<blob, tree, nodes, node_counter, prop_counter, cur, ops, out,
                   device_tree_fixups, invoked, slots>>
    /\ UNCHANGED <<ctrlr, dest>>

\* size = fdt_node_name(blob, offset, &name)
NodeName(offset) ==
    /\ pc = "reader"
    /\ LET r == fdt_node_name(blob, offset, CallerName)
       IN  last' = [op |-> "fdt_node_name", args |-> <<offset>>, ret |-> r.ret,
                    cells |-> <<>>, name |-> r.name]
    /\ prev' = last
    /\ pc' = "read"
    /\ UNCHANGED <<blob, tree, nodes, node_counter, prop_counter, cur, ops, out,
                   device_tree_fixups, invoked, slots>>
    /\ UNCHANGED <<ctrlr, dest>>

\* size = fdt_skip_node(blob, offset)
SkipNode(offset) ==
    /\ pc = "reader"
    /\ last' = [op |-> "fdt_skip_node", args |-> <<offset>>,
                ret |-> fdt_skip_node(blob, offset), cells |-> <<>>]
    /\ prev' = last
    /\ pc' = "read"
    /\ UNCHANGED <<blob, tree, nodes, node_counter, prop_counter, cur, ops, out,
                   device_tree_fixups, invoked, slots>>
    /\ UNCHANGED <<ctrlr, dest>>

\* size = fdt_unflatten_node(blob, offset, &cur)
UnflattenNode(offset) ==
    /\ pc = "reader"
    /\ LET r == fdt_unflatten_node(blob, offset, Heap)
       IN  /\ SetHeap(r.h)
           /\ cur' = IF r.ret # 0 THEN r.node ELSE cur
           /\ last' = [op |-> "fdt_unflatten_node", args |-> <<offset>>, ret |-> r.ret,
                       cells |-> <<>>]
    /\ prev' = last
    /\ pc' = "read"
    /\ UNCHANGED <<blob, tree, ops, out, device_tree_fixups, invoked>>
    /\ UNCHANGED <<ctrlr, dest>>

NextReader ==
    \/ \E offset \in ReaderOffsets : NextProperty(offset)
    \/ \E offset \in ReaderOffsets : NodeName(offset)
    \/ \E offset \in ReaderOffsets : SkipNode(offset)
    \/ \E offset \in ReaderOffsets : UnflattenNode(offset)

SpecReader == InitReader /\ [][NextReader]_vars

\* The declared sizes of a property, as the limbs of the 32-bit size word.
SizeHi == {0, 1, 32767, 32768, 65534, 65535}
SizeLo == {0, 1, 2, 3, 4, 5, 8, 65520, 65521, 65524, 65532, 65533, 65535}

\* The width of size_t of the build.
SizeTBits == {32, 64}

MaxNameLen == 5

\* A blob whose structure block is one property token that declares
\* hi * 65536 + lo bytes of data (8 bytes of it held by the blob), and one
\* whose root node has the name given.
SizeBlob(hi, lo) ==
    MkBlob(<<>>, Canonical, Sentinel,
           htobe32(TokenProperty) \o <<hi \div 256, hi % 256, lo \div 256, lo % 256>>
               \o htobe32(0) \o <<1, 2, 3, 4, 5, 6, 7, 8>> \o FdtEnd,
           NameX \o <<0>>)
NameBlob(name) ==
    MkBlob(<<>>, Canonical, Sentinel, FdtBeginNode(name) \o FdtEndNode \o FdtEnd, <<>>)

SizeBlobs ==
    {SizeBlob(hi, lo) : hi \in SizeHi, lo \in SizeLo}
        \cup {NameBlob([i \in 1..n |-> 97]) : n \in 0..MaxNameLen}

InitSize ==
    /\ blob \in SizeBlobs
    /\ pc = "size"
    /\ tree = NoTree
    /\ nodes = <<>>
    /\ node_counter = 0
    /\ prop_counter = 0
    /\ cur = NULL
    /\ ops = 0
    /\ last = NoCall
    /\ prev = NoCall
    /\ out = NoOut
    /\ device_tree_fixups = <<>>
    /\ invoked = <<>>
    /\ slots = NoSlots
    /\ ctrlr = NoCtrlr
    /\ dest = NoDest

\* size = fdt_next_property(blob, structure_offset, NULL) returns: index * 4
\* where that fits int, what two's complement arithmetic gives where not.
NextPropertyReturns(size_t_bits) ==
    /\ pc = "size"
    /\ LET offset == be32toh(blob, OffStructureOffset)
       IN  /\ be32toh(blob, offset) = TokenProperty
           /\ last' = [op |-> "fdt_next_property", args |-> <<offset>>,
                       ret |-> fdt_next_property_ret(blob, offset, size_t_bits).ret,
                       cells |-> <<>>, size_t |-> size_t_bits]
    /\ prev' = last
    /\ pc' = "sized"
    /\ UNCHANGED <<blob, tree, nodes, node_counter, prop_counter, cur, ops, out,
                   device_tree_fixups, invoked, slots>>
    /\ UNCHANGED <<ctrlr, dest>>

\* The same call in a build that traps on signed overflow: index * 4 does
\* not fit int and the call does not return.
NextPropertyTraps(size_t_bits) ==
    /\ pc = "size"
    /\ LET offset == be32toh(blob, OffStructureOffset)
       IN  /\ be32toh(blob, offset) = TokenProperty
           /\ fdt_next_property_ret(blob, offset, size_t_bits).overflow
           /\ last' = [op |-> "fdt_next_property", args |-> <<offset>>,
                       ret |-> NoRet, cells |-> <<>>, size_t |-> size_t_bits]
    /\ prev' = last
    /\ pc' = "trapped"
    /\ UNCHANGED <<blob, tree, nodes, node_counter, prop_counter, cur, ops, out,
                   device_tree_fixups, invoked, slots>>
    /\ UNCHANGED <<ctrlr, dest>>

\* size = fdt_node_name(blob, structure_offset, &name)
NodeNameReturns ==
    /\ pc = "size"
    /\ LET offset == be32toh(blob, OffStructureOffset)
       IN  /\ be32toh(blob, offset) = TokenBeginNode
           /\ LET r == fdt_node_name(blob, offset, CallerName)
              IN  last' = [op |-> "fdt_node_name", args |-> <<offset>>, ret |-> r.ret,
                           cells |-> <<>>, name |-> r.name]
    /\ prev' = last
    /\ pc' = "sized"
    /\ UNCHANGED <<blob, tree, nodes, node_counter, prop_counter, cur, ops, out,
                   device_tree_fixups, invoked, slots>>
    /\ UNCHANGED <<ctrlr, dest>>

NextSize ==
    \/ \E size_t_bits \in SizeTBits : NextPropertyReturns(size_t_bits)
    \/ \E size_t_bits \in SizeTBits : NextPropertyTraps(size_t_bits)
    \/ NodeNameReturns

SpecSize == InitSize /\ [][NextSize]_vars

\* / { #size-cells = <1>; x = [01];
\*     a { #address-cells = <2>; x = [01 02]; b { x = [02]; }; };
\*     c { #size-cells = <2>; x = [02]; }; };
StringsValues == AddressCells \o <<0>> \o SizeCells \o <<0>> \o NameX \o <<0>>
StructValues ==
    Concat(<< FdtBeginNode(<<>>),
              FdtProp(15, <<0, 0, 0, 1>>),
              FdtProp(27, <<1>>),
              FdtBeginNode(NameA),
                FdtProp(0, <<0, 0, 0, 2>>),
                FdtProp(27, <<1, 2>>),
                FdtBeginNode(NameB), FdtProp(27, <<2>>), FdtEndNode,
              FdtEndNode,
              FdtBeginNode(NameC),
                FdtProp(15, <<0, 0, 0, 2>>),
                FdtProp(27, <<2>>),
              FdtEndNode,
              FdtEndNode, FdtEnd >>)
BlobValues == MkBlob(<<>>, Canonical, Sentinel, StructValues, StringsValues)

\* The blobs the searches run on.
QueryBlobs == InputBlobs \cup {BlobValues}

\* The arguments of the searches: paths (one with the component ""), the values *addrcp and *sizecp hold
\* before the call, property names, and (data, size) pairs.
QueryPaths == {<<>>, <<NameA>>, <<NameA, NameB>>, <<NameC>>, <<NameD>>, <<NameA, NameD>>,
               << <<>> >>}
QueryCells == {[addr |-> 7, size |-> 9], [addr |-> NoPtr, size |-> 9],
               [addr |-> 7, size |-> NoPtr]}
QueryNames == {NameX, AddressCells, NameE}
QueryCompats == {Foo, Bar, Baz}
QueryValues == {<< <<1>>, 1 >>, << <<2>>, 1 >>, << <<1, 2>>, 2 >>, << <<2, 5>>, 1 >>,
                << <<9>>, 1 >>, << <<>>, 0 >>, << <<0, 0, 0, 2>>, 4 >>}

InitQuery ==
    /\ blob \in QueryBlobs
    /\ pc = "start"
    /\ tree = NoTree
    /\ nodes = <<>>
    /\ node_counter = 0
    /\ prop_counter = 0
    /\ cur = NULL
    /\ ops = 0
    /\ last = NoCall
    /\ prev = NoCall
    /\ out = NoOut
    /\ device_tree_fixups = <<>>
    /\ invoked = <<>>
    /\ slots = NoSlots
    /\ ctrlr = NoCtrlr
    /\ dest = NoDest

\* cur = dt_find_node(parent, path, &addrc, &sizec, create), addrc and sizec
\* holding cells before the call (NoPtr: a NULL pointer is passed).
FindNodeFrom(parent, path, cells, create) ==
    /\ pc = "tree"
    /\ LET r == dt_find_node(Heap, parent, path, cells, create)
       IN  /\ SetHeap(r.h)
           /\ cur' = IF r.node # NULL THEN r.node ELSE cur
           /\ last' = [op |-> "dt_find_node", args |-> <<parent, path, create, cells>>,
                       ret |-> r.node, cells |-> r.cells]
    /\ pc' = "queried"
    /\ prev' = last
    /\ UNCHANGED <<blob, tree, ops, out, device_tree_fixups, invoked>>
    /\ UNCHANGED <<ctrlr, dest>>

\* cur = dt_find_prop_value(parent, name, data, size)
FindPropValue(parent, name, data, size) ==
    /\ pc = "tree"
    /\ LET found == dt_find_prop_value(nodes, parent, name, data, size)
       IN  /\ cur' = IF found # NULL THEN found ELSE cur
           /\ last' = [op |-> "dt_find_prop_value", args |-> <<parent, name, data, size>>,
                       ret |-> found, cells |-> <<>>]
    /\ pc' = "queried"
    /\ prev' = last
    /\ UNCHANGED <<blob, tree, nodes, node_counter, prop_counter, ops, out,
                   device_tree_fixups, invoked, slots>>
    /\ UNCHANGED <<ctrlr, dest>>

\* cur = dt_find_compat(parent, compat)
FindCompat(parent, compat) ==
    /\ pc = "tree"
    /\ LET found == dt_find_compat(nodes, parent, compat)
       IN  /\ cur' = IF found # NULL THEN found ELSE cur
           /\ last' = [op |-> "dt_find_compat", args |-> <<parent, compat>>,
                       ret |-> found, cells |-> <<>>]
    /\ pc' = "queried"
    /\ prev' = last
    /\ UNCHANGED <<blob, tree, nodes, node_counter, prop_counter, ops, out,
                   device_tree_fixups, invoked, slots>>
    /\ UNCHANGED <<ctrlr, dest>>

\* cur = dt_find_next_compat_child(parent, child, compat)
FindNextCompatChild(parent, child, compat) ==
    /\ pc = "tree"
    /\ LET found == dt_find_next_compat_child(nodes, parent, child, compat)
       IN  /\ cur' = IF found # NULL THEN found ELSE cur
           /\ last' = [op |-> "dt_find_next_compat_child",
                       args |-> <<parent, child, compat>>, ret |-> found, cells |-> <<>>]
    /\ pc' = "queried"
    /\ prev' = last
    /\ UNCHANGED <<blob, tree, nodes, node_counter, prop_counter, ops, out,
                   device_tree_fixups, invoked, slots>>
    /\ UNCHANGED <<ctrlr, dest>>

\* dt_find_bin_prop(node, name, &data, &size)
FindBinProp(node, name) ==
    /\ pc = "tree"
    /\ LET r == dt_find_bin_prop(nodes, node, name)
       IN  last' = [op |-> "dt_find_bin_prop", args |-> <<node, name>>, ret |-> r.size,
                    cells |-> <<>>, data |-> r.data]
    /\ pc' = "queried"
    /\ prev' = last
    /\ UNCHANGED <<blob, tree, nodes, node_counter, prop_counter, cur, ops, out,
                   device_tree_fixups, invoked, slots>>
    /\ UNCHANGED <<ctrlr, dest>>

\* size = dt_flat_size(tree)
FlatSize ==
    /\ pc = "tree"
    /\ last' = [op |-> "dt_flat_size", args |-> <<>>, ret |-> dt_flat_size(tree, nodes),
                cells |-> <<>>]
    /\ pc' = "queried"
    /\ prev' = last
    /\ UNCHANGED <<blob, tree, nodes, node_counter, prop_counter, cur, ops, out,
                   device_tree_fixups, invoked, slots>>
    /\ UNCHANGED <<ctrlr, dest>>

NextQuery ==
    \/ Unflatten
    \/ \E parent \in 1..Len(nodes), path \in QueryPaths, cells \in QueryCells,
          create \in {0, 1} : FindNodeFrom(parent, path, cells, create)
    \/ \E parent \in 1..Len(nodes), name \in QueryNames, v \in QueryValues :
          FindPropValue(parent, name, v[1], v[2])
    \/ \E parent \in 1..Len(nodes), compat \in QueryCompats : FindCompat(parent, compat)
    \/ \E parent \in 1..Len(nodes), compat \in QueryCompats :
          \E child \in {NULL} \cup {nodes[parent].children[i] :
                                        i \in 1..Len(nodes[parent].children)} :
              FindNextCompatChild(parent, child, compat)
    \/ \E node \in 1..Len(nodes), name \in QueryNames : FindBinProp(node, name)
    \/ FlatSize

SpecQuery == InitQuery /\ [][NextQuery]_vars

\* The block counts asked for, the calls made, and the commands the
\* controller completes during one call before it stalls.
MaxBlocks == 5
MaxNvmeCalls == 2
MaxBudget == 3

InitNvme ==
    /\ blob = <<>>
    /\ pc = "nvme"
    /\ tree = NoTree
    /\ nodes = <<>>
    /\ node_counter = 0
    /\ prop_counter = 0
    /\ cur = NULL
    /\ ops = 0
    /\ last = NoCall
    /\ prev = NoCall
    /\ out = NoOut
    /\ device_tree_fixups = <<>>
    /\ invoked = <<>>
    /\ slots = NoSlots
    /\ ctrlr = NvmeCtrlrAtInit
    /\ dest = NoDest

\* ret = nvme_read(me, start, count, buffer), the controller completing at
\* most budget commands while the call runs.
NvmeRead(count, budget, fit) ==
    /\ pc = "nvme" /\ ops < MaxNvmeCalls
    /\ LET r == nvme_read([ctrlr EXCEPT !.budget = budget, !.queued = 0, !.polled = 0],
                          count, fit)
       IN  /\ ctrlr' = r.c
           /\ last' = [op |-> "nvme_read", args |-> <<count, budget, fit>>, ret |-> r.ret,
                       cells |-> <<>>, status |-> r.status, final |-> r.final]
    /\ ops' = ops + 1
    /\ prev' = last
    /\ UNCHANGED <<blob, pc, tree, nodes, node_counter, prop_counter, cur, out,
                   device_tree_fixups, invoked, slots, dest>>

\* ret = nvme_write(me, start, count, buffer)
NvmeWrite(count, budget, fit) ==
    /\ pc = "nvme" /\ ops < MaxNvmeCalls
    /\ LET r == nvme_write([ctrlr EXCEPT !.budget = budget, !.queued = 0, !.polled = 0],
                           count, fit)
       IN  /\ ctrlr' = r.c
           /\ last' = [op |-> "nvme_write", args |-> <<count, budget, fit>>, ret |-> r.ret,
                       cells |-> <<>>, status |-> r.status, final |-> r.final]
    /\ ops' = ops + 1
    /\ prev' = last
    /\ UNCHANGED <<blob, pc, tree, nodes, node_counter, prop_counter, cur, out,
                   device_tree_fixups, invoked, slots, dest>>

NextNvme ==
    \/ \E count \in 0..MaxBlocks, budget \in 0..MaxBudget,
          fit \in {MaxTransferBlocks - 1, MaxTransferBlocks} : NvmeRead(count, budget, fit)
    \/ \E count \in 0..MaxBlocks, budget \in 0..MaxBudget,
          fit \in {MaxTransferBlocks - 1, MaxTransferBlocks} : NvmeWrite(count, budget, fit)

SpecNvme == InitNvme /\ [][NextNvme]_vars

\* The command-line templates, destination sizes, boot devices and
\* mainboard command lines commandline_subst is called with: the
\* templates "", "a", "%", "%D", "%Dp", "%P", "%U", "%R", "%%", "ab%Pc"
\* and "%Da", and the mainboard command lines NULL, "" and "m=1 ".
CmdlineSrcs ==
    {<<>>,
     <<97>>,
     <<37>>,
     <<37, 68>>,
     <<37, 68, 112>>,
     <<37, 80>>,
     <<37, 85>>,
     <<37, 82>>,
     <<37, 37>>,
     <<97, 98, 37, 80, 99>>,
     <<37, 68, 97>>}
DestSizes ==
    (0..20) \cup (28..35) \cup (47..54) \cup (68..75) \cup {10000, 10001}
Guid == <<1, 35, 69, 103, 137, 171, 205, 239, 16, 50, 84, 118, 152, 186, 220, 254>>
CmdlineInfos ==
    {[devnum |-> 0, partnum |-> 3, external_gpt |-> 0, guid |-> Guid],
     [devnum |-> 25, partnum |-> 99, external_gpt |-> 1, guid |-> Guid],
     [devnum |-> 12, partnum |-> 42, external_gpt |-> 0, guid |-> Guid],
     [devnum |-> 26, partnum |-> 100, external_gpt |-> 1, guid |-> Guid],
     [devnum |-> -1, partnum |-> 0, external_gpt |-> 0, guid |-> Guid]}
MainboardCmdlines ==
    {mainboard_commandline,
     [null |-> FALSE, str |-> <<>>],
     [null |-> FALSE, str |-> <<109, 61, 49, 32>>]}

InitCmdline ==
    /\ blob = <<>>
    /\ pc = "cmdline"
    /\ tree = NoTree
    /\ nodes = <<>>
    /\ node_counter = 0
    /\ prop_counter = 0
    /\ cur = NULL
    /\ ops = 0
    /\ last = NoCall
    /\ prev = NoCall
    /\ out = NoOut
    /\ device_tree_fixups = <<>>
    /\ invoked = <<>>
    /\ slots = NoSlots
    /\ ctrlr = NoCtrlr
    /\ dest = NoDest

\* ret = commandline_subst(src, dest, dest_size, info)
CommandlineSubst(src, dest_size, info, mainboard_cmdline) ==
    /\ pc = "cmdline"
    /\ LET r == commandline_subst(src, dest_size, info, mainboard_cmdline)
       IN  /\ dest' = [size |-> dest_size, text |-> r.text, nul |-> r.nul]
           /\ last' = [op |-> "commandline_subst",
                       args |-> <<src, dest_size, info, mainboard_cmdline>>,
                       ret |-> r.ret, cells |-> <<>>]
    /\ pc' = "substituted"
    /\ prev' = last
    /\ UNCHANGED <<blob, tree, nodes, node_counter, prop_counter, cur, ops, out,
                   device_tree_fixups, invoked, slots, ctrlr>>

NextCmdline ==
    \E src \in CmdlineSrcs, dest_size \in DestSizes, info \in CmdlineInfos,
       mainboard_cmdline \in MainboardCmdlines :
        CommandlineSubst(src, dest_size, info, mainboard_cmdline)

SpecCmdline == InitCmdline /\ [][NextCmdline]_vars

\* The boot up to dt_apply_fixups: board code registers fixups, the tree is
\* unflattened, the fixups are applied.
NextFixups ==
    \/ Unflatten
    \/ \E fixup \in Fixups : RegisterFixup(fixup)
    \/ ApplyFixups

SpecFixups == Init /\ [][NextFixups]_vars

\* ------------------------------------------------------------------------
\* Properties
\* ------------------------------------------------------------------------

\* The tree below node n as a value: names, properties (name, size and the
\* size bytes of the value) and children, in list order.
RECURSIVE Structure(_, _)
Structure(ns, n) ==
    [name |-> ns[n].name,
     properties |-> [i \in 1..Len(ns[n].properties) |->
                        [name |-> ns[n].properties[i].name,
                         size |-> ns[n].properties[i].size,
                         data |-> SubSeq(ns[n].properties[i].data, 1,
                                         ns[n].properties[i].size)]],
     children |-> [i \in 1..Len(ns[n].children) |-> Structure(ns, ns[n].children[i])]]

\* fdt_unflatten of the buffer dt_flatten filled.
Reread == fdt_unflatten(out.buf, Heap)

\* C1: round trip.  Unflattening the buffer dt_flatten produced from a tree
\* gives a tree with the same node names in the same child order, the same
\* property names, sizes and bytes in the same order on every node, and the
\* same reserve-map entries in the same order.
C1_RoundTrip ==
    pc = "flat" =>
        /\ ~Reread.ub
        /\ Structure(Reread.h.nodes, Reread.tree.root) = Structure(nodes, tree.root)
        /\ Reread.tree.reserve_map = tree.reserve_map

\* The round trip of the nodes and properties alone, and of the reserve map
\* when the blob the tree came from had its reserve map first.
RoundTripNodes ==
    pc = "flat" =>
        Structure(Reread.h.nodes, Reread.tree.root) = Structure(nodes, tree.root)
RoundTripMapFirst ==
    (pc = "flat" /\ be32toh(blob, OffReserveMapOffset) = tree.header_size) =>
        (~Reread.ub /\ Reread.tree.reserve_map = tree.reserve_map)

\* C2: size exactness.  dt_flatten stores no byte at an offset >=
\* dt_flat_size(tree), and the totalsize it leaves in the output header is
\* dt_flat_size(tree).
C2_SizeExact ==
    pc = "flat" =>
        /\ out.hi <= dt_flat_size(tree, nodes)
        /\ be32toh(out.buf, OffTotalsize) = dt_flat_size(tree, nodes)

\* A flattened tree with a property value whose length is not a multiple of
\* 4, a zero-length property and a reserved range, after the most calls.
C2_Witness ==
    /\ pc = "flat" /\ blob = BlobBoard /\ ops = MaxOps
    /\ out.hi = dt_flat_size(tree, nodes)
    /\ be32toh(out.buf, OffTotalsize) = Len(out.buf)

\* C3: the measuring and the emitting traversal stay in lockstep.  For every
\* node, dt_flatten_node advances the structure cursor by the struct_size
\* and the strings cursor by the strings_size dt_flat_node_size adds for it;
\* after dt_flatten the structure cursor is on the END token and the strings
\* cursor is at totalsize.
C3_Lockstep ==
    /\ pc \in {"tree", "flat"} =>
           \A n \in 1..Len(nodes) :
               LET m == dt_flat_node_size(nodes, n, ZeroSize)
                   e == dt_flatten_node(nodes, n, [buf |-> <<>>, hi |-> 0], 0, 0, 0)
               IN  e.dstruct = m.struct_size /\ e.dstrings = m.strings_size
    /\ pc = "flat" =>
           /\ out.struct_end =
                  be32toh(out.buf, OffStructureOffset) + be32toh(out.buf, OffStructureSize)
           /\ be32toh(out.buf, out.struct_end) = TokenEnd
           /\ out.strings_end = be32toh(out.buf, OffTotalsize)
           /\ out.strings_end =
                  be32toh(out.buf, OffStringsOffset) + be32toh(out.buf, OffStringsSize)

\* A flattened tree of depth 3 with properties on several levels.
C3_Witness ==
    /\ pc = "flat" /\ blob = BlobCompat /\ ops = MaxOps
    /\ out.struct_end + 4 = be32toh(out.buf, OffStringsOffset)
    /\ out.strings_end = Len(out.buf)
    /\ \E n \in 1..Len(nodes) : nodes[n].children # <<>> /\ n # tree.root

\* The node a walk from parent along path ends on, NULL when some component
\* has no child of that name under the node reached so far.
RECURSIVE Walk(_, _, _)
Walk(ns, parent, path) ==
    IF path = <<>> THEN parent
    ELSE LET named == {i \in 1..Len(ns[parent].children) :
                           ns[ns[parent].children[i]].name = Head(path)}
         IN  IF named = {} THEN NULL
             ELSE Walk(ns, ns[parent].children[CHOOSE i \in named : \A j \in named : i <= j],
                       Tail(path))

\* The children of node n, as a set.
ChildSet(ns, n) == {ns[n].children[i] : i \in 1..Len(ns[n].children)}

\* A step that is a call of dt_find_node.
IsFindNodeStep == pc = "tree" /\ ops' = ops + 1 /\ last'.op = "dt_find_node"

PropsNamed(ns, n, name) ==
    {i \in 1..Len(ns[n].properties) : ns[n].properties[i].name = name}

\* The names every call of the dt_add_*_prop family is made with.
PropNames == BinNames \cup {Compatible, Reg, AddressCells, SizeCells}

\* C5: property upsert.  The property names of every node stay pairwise
\* distinct under dt_add_bin_prop / dt_add_string_prop / dt_add_u32_prop /
\* dt_add_reg_prop; right after a call of one of them exactly one property
\* of the node has the name of the call, and after dt_add_bin_prop
\* dt_find_bin_prop returns the data and size of the call (so the 8-byte
\* value when x was added with 4 and then with 8 bytes); a name no
\* property of the node has gives NULL and size 0.
C5_Upsert ==
    pc \in {"tree", "flat"} =>
        /\ \A n \in 1..Len(nodes) :
               /\ \A i, j \in 1..Len(nodes[n].properties) :
                      nodes[n].properties[i].name = nodes[n].properties[j].name => i = j
               /\ \A name \in PropNames :
                      PropsNamed(nodes, n, name) = {} =>
                          dt_find_bin_prop(nodes, n, name) = [data |-> NULL, size |-> 0]
        /\ last.op \in {"dt_add_bin_prop", "dt_add_string_prop", "dt_add_u32_prop"} =>
               Cardinality(PropsNamed(nodes, last.args[1], last.args[2])) = 1
        /\ last.op = "dt_add_reg_prop" =>
               Cardinality(PropsNamed(nodes, last.args[1], Reg)) = 1
        /\ last.op = "dt_add_bin_prop" =>
               dt_find_bin_prop(nodes, last.args[1], last.args[2])
                   = [data |-> last.args[3], size |-> last.args[4]]

\* dt_add_bin_prop(root, x, data1, 4) and then dt_add_bin_prop(root, x,
\* data2, 8) have run on a root that had no x: one property was allocated,
\* and a name never added is still absent.
C5_Witness ==
    /\ pc = "tree" /\ blob = BlobCompat /\ ops = 2
    /\ prev.op = "dt_add_bin_prop"
    /\ prev.args = <<tree.root, NameX, <<17, 34, 51, 68>>, 4>>
    /\ last.op = "dt_add_bin_prop"
    /\ last.args = <<tree.root, NameX, <<1, 2, 3, 4, 5, 6, 7, 8>>, 8>>
    /\ prop_counter = 5
    /\ dt_find_bin_prop(nodes, tree.root, NameX).size = 8
    /\ dt_find_bin_prop(nodes, tree.root, NameE) = [data |-> NULL, size |-> 0]

\* The nodes of the subtree of n in depth-first pre-order: n, then the
\* whole subtree of each child in list order.
RECURSIVE PreOrder(_, _)
RECURSIVE PreOrderOf(_, _, _)
PreOrderOf(ns, children, i) ==
    IF i > Len(children) THEN <<>>
    ELSE PreOrder(ns, children[i]) \o PreOrderOf(ns, children, i + 1)

PreOrder(ns, n) == <<n>> \o PreOrderOf(ns, ns[n].children, 1)

\* The nodes of seq whose compatible property matches compat, in order.
Matching(ns, seq, compat) ==
    SelectSeq(seq, LAMBDA n : dt_check_compat_match(ns, n, compat) # 0)

\* The compatible strings searched for.
CompatNames == {Foo, Bar, Baz}

\* The node of the tree called name.
NodeNamed(name) == CHOOSE n \in 1..Len(nodes) : nodes[n].name = name

\* C6: compatible search order.  dt_find_compat(parent, compat) is the
\* first node of parent's subtree in depth-first pre-order whose compatible
\* property matches, and NULL only when no node of the subtree matches; on
\* the root with children X(foo), Y(bar), Z(foo) a search for foo gives X.
C6_CompatPreOrder ==
    pc \in {"tree", "flat"} =>
        /\ \A parent \in 1..Len(nodes), compat \in CompatNames :
               LET m == Matching(nodes, PreOrder(nodes, parent), compat)
               IN  dt_find_compat(nodes, parent, compat)
                       = IF m = <<>> THEN NULL ELSE Head(m)
        /\ (blob = BlobCompat /\ ops = 0) =>
               dt_find_compat(nodes, tree.root, Foo) = NodeNamed(NodeX)

\* A search from a root that matches itself and has matching descendants
\* (compatible = "foo" was added to the root of the X, Y, Z tree) gives the
\* root, and a search the root does not match gives the grandchild G before
\* the later child Z.
C6_Witness ==
    /\ pc = "tree" /\ blob = BlobCompat
    /\ last.op = "dt_add_string_prop" /\ last.args = <<tree.root, Compatible, Foo>>
    /\ Len(Matching(nodes, PreOrder(nodes, tree.root), Foo)) = 3
    /\ dt_find_compat(nodes, tree.root, Foo) = tree.root
    /\ Matching(nodes, PreOrder(nodes, tree.root), Baz) = <<NodeNamed(NodeG), NodeNamed(NodeZ)>>
    /\ dt_find_compat(nodes, tree.root, Baz) = NodeNamed(NodeG)

\* The nodes dt_find_next_compat_child returns when it is first called with
\* child = NULL and then with the node it returned, until it returns NULL or
\* fuel calls are made.
RECURSIVE Iterate(_, _, _, _, _)
Iterate(ns, parent, child, compat, fuel) ==
    IF fuel = 0 THEN <<>>
    ELSE LET r == dt_find_next_compat_child(ns, parent, child, compat)
         IN  <<r>> \o (IF r = NULL THEN <<>> ELSE Iterate(ns, parent, r, compat, fuel - 1))

\* C7: iteration with dt_find_next_compat_child.  The calls return the
\* direct children of parent whose compatible property matches, each once
\* and in child-list order, and then NULL; no other node is returned.  (The
\* function only reads the tree: it returns a node and nothing else.)
C7_ChildIteration ==
    pc \in {"tree", "flat"} =>
        \A parent \in 1..Len(nodes), compat \in CompatNames :
            Iterate(nodes, parent, NULL, compat, Len(nodes[parent].children) + 2)
                = Matching(nodes, nodes[parent].children, compat) \o <<NULL>>

\* On the root with children X(foo), Y(bar) with child G(baz), Z(foo, baz):
\* foo gives X, Z and then NULL; baz gives Z and then NULL, the matching
\* grandchild G never.
C7_Witness ==
    /\ pc = "tree" /\ blob = BlobCompat /\ ops = 0
    /\ Iterate(nodes, tree.root, NULL, Foo, 5) = <<NodeNamed(NodeX), NodeNamed(NodeZ), NULL>>
    /\ Iterate(nodes, tree.root, NULL, Baz, 5) = <<NodeNamed(NodeZ), NULL>>
    /\ dt_check_compat_match(nodes, NodeNamed(NodeG), Baz) # 0
    /\ NodeNamed(NodeG) \notin ChildSet(nodes, tree.root)

\* The 8 bytes at offset off of buf as a 64-bit big-endian number in four
\* 16-bit limbs, most significant first.
Limbs(buf, off) == [j \in 1..4 |-> buf[off + 2 * j - 1] * 256 + buf[off + 2 * j]]

\* The k-th (from 0) 16-byte pair of the reserve map of the blob.
MapOffset == be32toh(blob, OffReserveMapOffset)
MapPair(k) == [start |-> Limbs(blob, MapOffset + 16 * k),
               size |-> Limbs(blob, MapOffset + 16 * k + 8)]

\* The pairs of the blob, from 0, whose eight size bytes are all zero.
ZeroSizePairs ==
    {k \in 0..((Len(blob) - MapOffset) \div 16 - 1) :
         \A i \in 9..16 : blob[MapOffset + 16 * k + i] = 0}

\* C8: reserve-map sentinel.  The reserve map of the unflattened tree is
\* exactly the pairs of the blob before the first pair whose size is zero,
\* in blob order; no entry has size 0, nothing from behind the sentinel is
\* in the list, and a map whose first pair is all zero gives an empty list.
C8_ReserveMapSentinel ==
    pc \in {"tree", "flat"} =>
        /\ ZeroSizePairs # {}
        /\ LET first == CHOOSE k \in ZeroSizePairs : \A j \in ZeroSizePairs : k <= j
           IN  /\ Len(tree.reserve_map) = first
               /\ \A k \in 0..(first - 1) : tree.reserve_map[k + 1] = MapPair(k)
        /\ \A i \in 1..Len(tree.reserve_map) : tree.reserve_map[i].size # U64Zero
        /\ (\A i \in 1..16 : blob[MapOffset + i] = 0) => tree.reserve_map = <<>>

\* The map Range1, (Range2.start, 0), Range2, sentinel was unflattened to
\* the one entry Range1: the walk stopped on the zero size of the second
\* pair although its start is not zero and a full pair follows.
C8_Witness ==
    /\ pc = "tree" /\ blob = BlobSentinel
    /\ last.op = "fdt_unflatten"
    /\ tree.reserve_map = <<Range1>>
    /\ MapPair(1).start = Range2.start /\ MapPair(1).size = U64Zero
    /\ MapPair(2) = Range2

\* val (four 16-bit limbs, most significant first) written big-endian in
\* length bytes: the byte d places from the end is byte d of val, and 0
\* from place 8 on.
BigEndian(val, length) ==
    [p \in 1..length |->
        LET d == length - p
        IN  IF d >= 8 THEN 0
            ELSE IF d % 2 = 0 THEN val[4 - d \div 2] % 256
            ELSE val[4 - d \div 2] \div 256]

\* Entries i .. count of a reg property, one after the other.
RECURSIVE RegBytes(_, _, _, _, _, _)
RegBytes(addrs, sizes, i, count, addr_cells, size_cells) ==
    IF i > count THEN <<>>
    ELSE BigEndian(addrs[i], addr_cells * 4) \o BigEndian(sizes[i], size_cells * 4)
             \o RegBytes(addrs, sizes, i + 1, count, addr_cells, size_cells)

\* The call dt_add_reg_prop(node, [0x1000], [0x200], 1, 2, 1).
RegExample == << << <<0, 0, 0, 4096>> >>, << <<0, 0, 0, 512>> >>, 1, 2, 1 >>

\* C9: reg-property encoding.  After dt_add_reg_prop(node, addrs, sizes,
\* count, addr_cells, size_cells) the node has exactly one property named
\* reg, of (addr_cells + size_cells) * 4 * count bytes, in which entry i is
\* addrs[i] big-endian in addr_cells * 4 bytes and then sizes[i] big-endian
\* in size_cells * 4 bytes (zero-filled above 8 bytes, cut to the low bytes
\* below); [0x1000], [0x200], 1, 2, 1 gives 00 00 00 00 00 00 10 00 00 00
\* 02 00.
C9_RegEncoding ==
    (pc = "tree" /\ last.op = "dt_add_reg_prop") =>
        LET node == last.args[1]
            addrs == last.args[2]
            sizes == last.args[3]
            count == last.args[4]
            addr_cells == last.args[5]
            size_cells == last.args[6]
            r == dt_find_bin_prop(nodes, node, Reg)
        IN  /\ Cardinality(PropsNamed(nodes, node, Reg)) = 1
            /\ r.size = (addr_cells + size_cells) * 4 * count
            /\ Len(r.data) = r.size
            /\ r.data = RegBytes(addrs, sizes, 1, count, addr_cells, size_cells)
            /\ SubSeq(last.args, 2, 6) = RegExample =>
                   r.data = <<0, 0, 0, 0, 0, 0, 16, 0, 0, 0, 2, 0>>

\* dt_add_reg_prop(root, [0x1000], [0x200], 1, 2, 1) has replaced the reg
\* property an earlier dt_add_reg_prop with 3 address cells made.
C9_Witness ==
    /\ pc = "tree" /\ blob = BlobBoard /\ ops = 2
    /\ prev.op = "dt_add_reg_prop" /\ prev.args[1] = tree.root /\ prev.args[5] = 3
    /\ last.op = "dt_add_reg_prop" /\ last.args = <<tree.root>> \o RegExample
    /\ dt_find_bin_prop(nodes, tree.root, Reg)
           = [data |-> <<0, 0, 0, 0, 0, 0, 16, 0, 0, 0, 2, 0>>, size |-> 12]
    /\ prop_counter = 5

\* The positions of the registered fixups whose callback returns nonzero.
Failing == {i \in 1..Len(device_tree_fixups) : device_tree_fixups[i].rc # 0}

\* C10: fixup application is ordered and fail-fast.  dt_apply_fixups calls
\* the registered fixups in registration order, each at most once; it
\* returns 0 iff every registered fixup returned 0 (also when none is
\* registered); when a fixup returns nonzero it returns 1, no fixup
\* registered after that one is called, and what the called fixups did to
\* the tree stays.  (A registered fixup without a callback fails the
\* assert: the program ends there and nothing is returned; the fixups before
\* it were called in order.)
C10_FixupsFailFast ==
    /\ pc \in {"fixed", "abort"} =>
           /\ Len(invoked) <= Len(device_tree_fixups)
           /\ \A i \in 1..Len(invoked) : invoked[i] = device_tree_fixups[i].tag
           /\ \A i, j \in 1..Len(invoked) : invoked[i] = invoked[j] => i = j
           /\ \A i \in 1..Len(invoked) :
                  dt_find_bin_prop(nodes, tree.root, device_tree_fixups[i].name)
                      = [data |-> htobe32(device_tree_fixups[i].val), size |-> 4]
           /\ \A i \in (Len(invoked) + 1)..Len(device_tree_fixups) :
                  dt_find_bin_prop(nodes, tree.root, device_tree_fixups[i].name)
                      = dt_find_bin_prop(fdt_unflatten(blob, [nodes |-> <<>>,
                                                        node_counter |-> 0,
                                                        prop_counter |-> 0,
                                                        slots |-> NoSlots]).h.nodes,
                                         tree.root, device_tree_fixups[i].name)
    /\ pc = "fixed" =>
           /\ last.ret \in {0, 1}
           /\ last.ret = 0 <=> Failing = {}
           /\ last.ret = 0 => Len(invoked) = Len(device_tree_fixups)
           /\ last.ret = 1 =>
                  /\ Len(invoked) \in Failing
                  /\ \A i \in Failing : Len(invoked) <= i

\* Of the fixups registered in the order x, failing, e, dt_apply_fixups has
\* called x and the failing one and returned 1: the root has the property
\* of x and the property the failing fixup set, and not the property of e.
C10_Witness ==
    /\ pc = "fixed" /\ blob = BlobCompat
    /\ device_tree_fixups = <<FixupX, FixupFail, FixupE>>
    /\ invoked = <<FixupX.tag, FixupFail.tag>>
    /\ last.op = "dt_apply_fixups" /\ last.ret = 1
    /\ dt_find_bin_prop(nodes, tree.root, NameX).size = 4
    /\ dt_find_bin_prop(nodes, tree.root, NameA).size = 4
    /\ dt_find_bin_prop(nodes, tree.root, NameE).data = NULL

\* The records a step hands out: the storage listed in after behind what is
\* listed in before.
NewSlots(before, after) == SubSeq(after, Len(before) + 1, Len(after))

\* The storage a step hands out when it starts with the pool counter at
\* counter: node_cache / prop_cache records counter, counter + 1, ... up to
\* the last record of the cache, and memory outside the cache from then on.
SlotsInOrder(new, counter, cache_size) ==
    \A i \in 1..Len(new) :
        IF counter + i - 1 < cache_size THEN new[i] = counter + i - 1
        ELSE new[i] >= cache_size

\* No record is listed twice.
Distinct(seq) == \A i, j \in 1..Len(seq) : seq[i] = seq[j] => i = j

\* The heap with both pool counters back at 0 and nothing handed out.
FreshPools(h) == [h EXCEPT !.node_counter = 0, !.prop_counter = 0, !.slots = NoSlots]

\* C11: allocation pools.  In every step node_counter stays in 0..1000 and
\* prop_counter in 0..5000 and neither decreases; every node of the arena
\* has a record of its own: the step hands out the cache records from the
\* counter on, in order, and memory outside the cache once the counter is at
\* the cache size, so no record is handed out twice; the next record
\* handed out is zeroed; and the step leaves the nodes it would leave with
\* both counters at 0.
C11_Pools ==
    [][
        /\ node_counter' \in 0..NodeCacheSize /\ prop_counter' \in 0..PropCacheSize
        /\ node_counter' >= node_counter /\ prop_counter' >= prop_counter
        /\ SubSeq(slots'.node, 1, Len(slots.node)) = slots.node
        /\ SubSeq(slots'.prop, 1, Len(slots.prop)) = slots.prop
        /\ Len(slots'.node) = Len(nodes')
        /\ SlotsInOrder(NewSlots(slots.node, slots'.node), node_counter, NodeCacheSize)
        /\ SlotsInOrder(NewSlots(slots.prop, slots'.prop), prop_counter, PropCacheSize)
        /\ node_counter' = MIN(NodeCacheSize,
                               node_counter + Len(NewSlots(slots.node, slots'.node)))
        /\ prop_counter' = MIN(PropCacheSize,
                               prop_counter + Len(NewSlots(slots.prop, slots'.prop)))
        /\ Distinct(slots'.node) /\ Distinct(slots'.prop)
        /\ \A i \in 1..Len(slots'.node) :
               slots'.node[i] < NodeCacheSize => slots'.node[i] < node_counter'
        /\ \A i \in 1..Len(slots'.prop) :
               slots'.prop[i] < PropCacheSize => slots'.prop[i] < prop_counter'
        /\ LET h1 == [nodes |-> nodes', node_counter |-> node_counter',
                      prop_counter |-> prop_counter', slots |-> slots']
               a == alloc_node(h1)
           IN  /\ a.h.nodes[a.node] = ZeroNode
               /\ a.node \notin 1..Len(nodes')
               /\ alloc_prop(h1).prop = ZeroProp
        /\ pc = "start" => nodes' = fdt_unflatten(blob, FreshPools(Heap)).h.nodes
        /\ last'.op = "dt_find_node" =>
               LET r == dt_find_node(FreshPools(Heap), last'.args[1], last'.args[2],
                                     [addr |-> 0, size |-> 0], last'.args[3])
               IN  nodes' = r.h.nodes /\ last'.ret = r.node
        /\ last'.op = "dt_add_bin_prop" =>
               nodes' = dt_add_bin_prop(FreshPools(Heap), last'.args[1], last'.args[2],
                                        last'.args[3], last'.args[4]).nodes
    ]_vars

\* A boot that started three node and two property records short of the
\* cache sizes: fdt_unflatten took the last cache records and then memory
\* outside the caches, dt_find_node created two nodes outside node_cache and
\* dt_add_bin_prop a property outside prop_cache; both counters are at the
\* cache sizes.
C11_Witness ==
    /\ pc = "tree" /\ blob = BlobBoard
    /\ node_counter = NodeCacheSize /\ prop_counter = PropCacheSize
    /\ prev.op = "dt_find_node" /\ prev.args[3] = 1 /\ last.op = "dt_add_bin_prop"
    /\ slots.node = <<NodeCacheSize - 3, NodeCacheSize - 2, NodeCacheSize - 1,
                      NodeCacheSize, NodeCacheSize + 1, NodeCacheSize + 2>>
    /\ slots.prop = <<PropCacheSize - 2, PropCacheSize - 1, PropCacheSize,
                      PropCacheSize + 1, PropCacheSize + 2>>
    /\ Len(nodes) = 6

\* The properties of the PROP tokens of a structure block in the order the
\* tokens lie in the buffer, read from offset off up to the END token:
\* [name, size, data], the name read from the strings block at strings.
RECURSIVE EmittedProps(_, _, _)
EmittedProps(buf, off, strings) ==
    LET token == be32toh(buf, off)
    IN  IF token = TokenBeginNode
        THEN EmittedProps(buf, off + 4 + size32(Len(CStr(buf, off + 4)) + 1) * 4, strings)
        ELSE IF token = TokenEndNode THEN EmittedProps(buf, off + 4, strings)
        ELSE IF token = TokenProperty
        THEN LET size == be32toh(buf, off + 4)
             IN  << [name |-> CStr(buf, strings + be32toh(buf, off + 8)),
                     size |-> size,
                     data |-> SubSeq(buf, off + 12 + 1, off + 12 + size)] >>
                     \o EmittedProps(buf, off + 12 + size32(size) * 4, strings)
        ELSE <<>>

\* The properties of the nodes of seq, node after node, each node's in list
\* order: [name, size, data].
RECURSIVE ListedProps(_, _)
ListedProps(ns, seq) ==
    IF seq = <<>> THEN <<>>
    ELSE Structure(ns, Head(seq)).properties \o ListedProps(ns, Tail(seq))

\* C12: property ordering under dt_add_bin_prop.  A call with a new name
\* puts the new property first in the node's list, before the properties
\* the node had, in their order; a call with a name the node has leaves the
\* length of the list and every position as they are and changes only the
\* data and size of that property; no other node changes.  dt_flatten emits
\* the properties of every node in list order.
C12_PropertyOrder ==
    [][
        /\ (pc = "tree" /\ ops' = ops + 1 /\ last'.op = "dt_add_bin_prop") =>
               LET node == last'.args[1]
                   name == last'.args[2]
                   new == [name |-> name, data |-> last'.args[3], size |-> last'.args[4]]
                   old == nodes[node].properties
               IN  /\ nodes'[node].properties =
                          IF PropsNamed(nodes, node, name) = {}
                          THEN <<new>> \o old
                          ELSE [i \in 1..Len(old) |->
                                   IF old[i].name = name THEN new ELSE old[i]]
                   /\ nodes' = [nodes EXCEPT ![node].properties = nodes'[node].properties]
        /\ pc' = "flat" =>
               EmittedProps(out'.buf, be32toh(out'.buf, OffStructureOffset),
                            be32toh(out'.buf, OffStringsOffset))
                   = ListedProps(nodes', PreOrder(nodes', tree'.root))
    ]_vars

\* dt_add_bin_prop(root, e, ...) put a new property e before the properties
\* #address-cells and x of the root, dt_add_bin_prop(root, x, 8 bytes) then
\* changed x where it was, and dt_flatten has emitted e first: the first
\* PROP token follows the root's BEGIN_NODE and names e.
C12_Witness ==
    /\ pc = "flat" /\ blob = BlobBoard /\ ops = 2
    /\ prev.op = "dt_add_bin_prop"
    /\ prev.args = <<tree.root, NameX, <<1, 2, 3, 4, 5, 6, 7, 8>>, 8>>
    /\ Len(nodes[tree.root].properties) = 3
    /\ [i \in 1..3 |-> nodes[tree.root].properties[i].name] = <<NameE, AddressCells, NameX>>
    /\ nodes[tree.root].properties[3].size = 8
    /\ Head(EmittedProps(out.buf, be32toh(out.buf, OffStructureOffset),
                         be32toh(out.buf, OffStringsOffset))).name = NameE

\* A step that is a call of dt_find_node with create = 1.
IsCreateStep == IsFindNodeStep /\ last'.args[3] = 1

\* C13, as stated: a child dt_find_node creates is placed after all the
\* children its parent already had, whose order is unchanged.
C13_CreatedChildLast ==
    [][IsCreateStep =>
        \A n \in 1..Len(nodes) :
            LET old == nodes[n].children
                new == nodes'[n].children
            IN  /\ SubSeq(new, 1, Len(old)) = old
                /\ \A i \in (Len(old) + 1)..Len(new) : new[i] > Len(nodes)
      ]_vars

\* C13, amended: a child dt_find_node creates is placed before all the
\* children its parent already had, whose order is unchanged; a parent gets
\* at most one new child in a call.
C13_CreatedChildFirst ==
    [][IsCreateStep =>
        \A n \in 1..Len(nodes) :
            LET old == nodes[n].children
                new == nodes'[n].children
                k == Len(new) - Len(old)
            IN  /\ k \in {0, 1}
                /\ SubSeq(new, k + 1, Len(new)) = old
                /\ \A i \in 1..k : new[i] > Len(nodes)
      ]_vars

\* dt_find_node(root, [d, b], create = 1) on the root with children a, c:
\* the root's children are now d, a, c.
C13_Witness ==
    /\ pc = "tree" /\ blob = BlobBoard /\ ops = 1
    /\ last.op = "dt_find_node" /\ last.args = <<tree.root, <<NameD, NameB>>, 1>>
    /\ [i \in 1..Len(nodes[tree.root].children) |->
           nodes[nodes[tree.root].children[i]].name] = <<NameD, NameA, NameC>>

\* The entries of a compatible value: the byte strings between its NULs;
\* what follows the last NUL is an entry when it is not empty.
RECURSIVE Entries(_)
Entries(data) ==
    IF data = <<>> THEN {}
    ELSE LET nuls == {i \in 1..Len(data) : data[i] = 0}
         IN  IF nuls = {} THEN {data}
             ELSE LET n == CHOOSE i \in nuls : \A j \in nuls : i <= j
                  IN  {SubSeq(data, 1, n - 1)} \cup Entries(SubSeq(data, n + 1, Len(data)))

\* The value of the first compatible property of node n, as a set of at most
\* one element.
FirstCompatible(ns, n) ==
    LET c == PropsNamed(ns, n, Compatible)
    IN  IF c = {} THEN {}
        ELSE {SubSeq(ns[n].properties[CHOOSE i \in c : \A j \in c : i <= j].data, 1,
                     ns[n].properties[CHOOSE i \in c : \A j \in c : i <= j].size)}

\* C14: compatible matching is by exact entry.  dt_check_compat_match(node,
\* compat) is 1 iff the node has a compatible property and one of the
\* entries of (the first) one equals compat in full, also when the last
\* entry is not NUL-terminated.
C14_ExactEntry ==
    pc = "checked" =>
        /\ last.ret \in {0, 1}
        /\ last.ret = 1 <=>
               \E data \in FirstCompatible(nodes, last.args[1]) :
                   last.args[2] \in Entries(data)

\* What holds of dt_check_compat_match: it is exact on every value that is
\* empty or ends with a NUL, and on the others whenever compat is not longer
\* than the entry that is not NUL-terminated.
ExactEntryWhenTerminated ==
    (/\ pc = "checked"
     /\ \A data \in FirstCompatible(nodes, last.args[1]) :
            \/ data = <<>>
            \/ data[Len(data)] = 0
            \/ \E n \in 1..Len(data) :
                   /\ \A i \in n..Len(data) : data[i] # 0
                   /\ n = 1 \/ data[n - 1] = 0
                   /\ Len(last.args[2]) <= Len(data) - n + 1)
        => (last.ret = 1 <=>
               \E data \in FirstCompatible(nodes, last.args[1]) :
                   last.args[2] \in Entries(data))

\* B2: dt_flatten of the tree fdt_unflatten builds from the buffer out.buf
\* (B1), into a zeroed buffer of dt_flat_size bytes.
Reflattened ==
    dt_flatten(Reread.tree, out.buf, Reread.h.nodes,
               [i \in 1..dt_flat_size(Reread.tree, Reread.h.nodes) |-> 0])

\* The section offsets, section sizes and totalsize of the header of buf.
HeaderFields(buf) ==
    [f \in {OffTotalsize, OffStructureOffset, OffStringsOffset, OffReserveMapOffset,
            OffStringsSize, OffStructureSize} |-> be32toh(buf, f)]

\* The tree fdt_unflatten builds from B1 is the tree it built from B0, and
\* B2 has the header fields of B1.
Restable ==
    /\ ~Reread.ub
    /\ Reread.tree.header_size = tree.header_size
    /\ Reread.tree.reserve_map = tree.reserve_map
    /\ Structure(Reread.h.nodes, Reread.tree.root) = Structure(nodes, tree.root)
    /\ HeaderFields(Reflattened.buf) = HeaderFields(out.buf)

\* C15: repeated serialization is stable.  With B1 = dt_flatten(
\* fdt_unflatten(B0)) and B2 = dt_flatten(fdt_unflatten(B1)), fdt_unflatten(
\* B1) has the header_size, reserve-map entries, nodes and properties of
\* fdt_unflatten(B0), and B2 has the totalsize and section offsets of B1,
\* whatever the order of the sections of B0.
C15_StableReserialization ==
    (pc = "flat" /\ ops = 0) => Restable

\* What holds: serialization is stable for the blobs whose reserve map is
\* the first section behind the header.
StableWhenMapFirst ==
    (pc = "flat" /\ ops = 0 /\ be32toh(blob, OffReserveMapOffset) = tree.header_size)
        => Restable

\* The size and name-offset fields of the PROP tokens of a structure block,
\* in the order the tokens lie in the buffer from offset off up to the END
\* token: [size, name_offset].
RECURSIVE PropTokens(_, _)
PropTokens(buf, off) ==
    LET token == be32toh(buf, off)
    IN  IF token = TokenBeginNode
        THEN PropTokens(buf, off + 4 + size32(Len(CStr(buf, off + 4)) + 1) * 4)
        ELSE IF token = TokenEndNode THEN PropTokens(buf, off + 4)
        ELSE IF token = TokenProperty
        THEN << [size |-> be32toh(buf, off + 4), name_offset |-> be32toh(buf, off + 8)] >>
                 \o PropTokens(buf, off + 12 + size32(be32toh(buf, off + 4)) * 4)
        ELSE <<>>

\* C16: name-offset consistency.  After dt_flatten every property of every
\* node has its PROP token, whose size field is the property's size and
\* whose name offset lies in [0, strings_size) and addresses, from the
\* header's strings_offset, a copy of the property's name with its NUL, all
\* of it inside the strings block.
C16_NameOffsets ==
    pc = "flat" =>
        LET tokens == PropTokens(out.buf, be32toh(out.buf, OffStructureOffset))
            props == ListedProps(nodes, PreOrder(nodes, tree.root))
            strings_offset == be32toh(out.buf, OffStringsOffset)
            strings_size == be32toh(out.buf, OffStringsSize)
        IN  /\ Len(tokens) = Len(props)
            /\ strings_offset + strings_size <= Len(out.buf)
            /\ \A i \in 1..Len(props) :
                   LET at == strings_offset + tokens[i].name_offset
                       len == Len(props[i].name)
                   IN  /\ tokens[i].size = props[i].size
                       /\ tokens[i].name_offset >= 0
                       /\ tokens[i].name_offset < strings_size
                       /\ tokens[i].name_offset + len + 1 <= strings_size
                       /\ SubSeq(out.buf, at + 1, at + len) = props[i].name
                       /\ out.buf[at + len + 1] = 0

\* dt_flatten into a buffer of 0xff bytes, of a tree with properties on the
\* root, on a child and on a grandchild created by dt_find_node: five PROP
\* tokens, the last one with a name offset above 0.
C16_Witness ==
    /\ pc = "flat" /\ blob = BlobBoard /\ last.args = <<255>>
    /\ prev.op = "dt_add_bin_prop" /\ prev.args[1] = 6 /\ Len(nodes) = 6
    /\ LET tokens == PropTokens(out.buf, be32toh(out.buf, OffStructureOffset))
       IN  /\ Len(tokens) = 5
           /\ tokens[5].name_offset > 0
           /\ tokens[1].name_offset = 0

\* x rounded up to a multiple of 4.
RoundUp4(x) == x + ((4 - (x % 4)) % 4)

\* The sum of the numbers of a sequence.
RECURSIVE SumSeq(_)
SumSeq(seq) == IF seq = <<>> THEN 0 ELSE Head(seq) + SumSeq(Tail(seq))

\* The nodes of the tree, and their properties as [name, size, data].
TreeNodes == PreOrder(nodes, tree.root)
TreeProps == ListedProps(nodes, TreeNodes)

\* C17: flat size formula without name deduplication.  dt_flat_size is
\* header_size + 16 * (reserve-map entries + 1) + the sum over the nodes of
\* 8 + pad4(strlen(name) + 1) + the sum over the properties of 12 +
\* pad4(size) + 4 + the sum over the properties of strlen(name) + 1; and
\* the strings block dt_flatten writes is one copy of the name, with its
\* NUL, for every property, in order, also for a name several properties
\* have.
C17_FlatSizeFormula ==
    /\ pc \in {"tree", "flat"} =>
           dt_flat_size(tree, nodes) =
               tree.header_size + 16 * (Len(tree.reserve_map) + 1)
               + SumSeq([i \in 1..Len(TreeNodes) |->
                            8 + RoundUp4(Len(nodes[TreeNodes[i]].name) + 1)])
               + SumSeq([i \in 1..Len(TreeProps) |-> 12 + RoundUp4(TreeProps[i].size)])
               + 4
               + SumSeq([i \in 1..Len(TreeProps) |-> Len(TreeProps[i].name) + 1])
    /\ pc = "flat" =>
           LET strings_offset == be32toh(out.buf, OffStringsOffset)
               strings_size == be32toh(out.buf, OffStringsSize)
           IN  /\ strings_size =
                      SumSeq([i \in 1..Len(TreeProps) |-> Len(TreeProps[i].name) + 1])
               /\ SubSeq(out.buf, strings_offset + 1, strings_offset + strings_size)
                      = Concat([i \in 1..Len(TreeProps) |-> TreeProps[i].name \o <<0>>])

\* The flattened tree has two properties called #address-cells (on the
\* root and on a) and two called x (on the root and, added by
\* dt_add_bin_prop, on another node): the strings block holds each name
\* twice, and e once.
C17_Witness ==
    /\ pc = "flat" /\ blob = BlobBoard /\ ops = 2
    /\ Cardinality({i \in 1..Len(TreeProps) : TreeProps[i].name = AddressCells}) = 2
    /\ Cardinality({i \in 1..Len(TreeProps) : TreeProps[i].name = NameX}) = 2
    /\ be32toh(out.buf, OffStringsSize) = 2 * 15 + 2 * 2 + 2

\* The offset after the END_NODE token that closes the node whose tokens
\* start at off, depth nodes being open there.
RECURSIVE EndOf(_, _, _)
EndOf(buf, off, depth) ==
    LET token == be32toh(buf, off)
    IN  IF token = TokenBeginNode
        THEN EndOf(buf, off + 4 + RoundUp4(Len(CStr(buf, off + 4)) + 1), depth + 1)
        ELSE IF token = TokenProperty
        THEN EndOf(buf, off + 12 + RoundUp4(be32toh(buf, off + 4)), depth)
        ELSE IF token = TokenEndNode
        THEN IF depth <= 1 THEN off + 4 ELSE EndOf(buf, off + 4, depth - 1)
        ELSE off

\* The number of PROPERTY tokens in a row from off, and the offset after them.
RECURSIVE PropRun(_, _)
PropRun(buf, off) ==
    IF be32toh(buf, off) # TokenProperty THEN [count |-> 0, end |-> off]
    ELSE LET rest == PropRun(buf, off + 12 + RoundUp4(be32toh(buf, off + 4)))
         IN  [count |-> rest.count + 1, end |-> rest.end]

\* The number of nodes in a row from off.
RECURSIVE NodeRun(_, _)
NodeRun(buf, off) ==
    IF be32toh(buf, off) # TokenBeginNode THEN 0
    ELSE 1 + NodeRun(buf, EndOf(buf, off, 0))

\* C18: a reader called on a token of the wrong kind returns 0 and leaves
\* its output as the caller had it: fdt_next_property on a token that is
\* not PROPERTY, fdt_node_name on one that is not BEGIN_NODE.
\* fdt_unflatten_node and fdt_skip_node return 0 when the first token is
\* not BEGIN_NODE, and fdt_unflatten_node then allocates nothing.  On a
\* node, the property list ends at the first token that is not PROPERTY
\* and the child list at the first that is not BEGIN_NODE.
C18_TokenMismatch ==
    pc = "read" =>
        LET offset == last.args[1]
            token == be32toh(blob, offset)
        IN  /\ last.op = "fdt_next_property" =>
                   IF token # TokenProperty
                   THEN last.ret = 0 /\ last.prop = CallerProp
                   ELSE last.ret > 0
            /\ last.op = "fdt_node_name" =>
                   IF token # TokenBeginNode
                   THEN last.ret = 0 /\ last.name = CallerName
                   ELSE last.ret > 0
            /\ last.op = "fdt_skip_node" =>
                   IF token # TokenBeginNode THEN last.ret = 0 ELSE last.ret > 0
            /\ last.op = "fdt_unflatten_node" =>
                   IF token # TokenBeginNode
                   THEN /\ last.ret = 0
                        /\ nodes = <<>>
                        /\ node_counter = 0
                        /\ prop_counter = 0
                        /\ slots = NoSlots
                        /\ cur = NULL
                   ELSE LET run == PropRun(blob, offset + 4
                                       + RoundUp4(Len(CStr(blob, offset + 4)) + 1))
                        IN  /\ last.ret > 0
                            /\ Len(nodes[cur].properties) = run.count
                            /\ Len(nodes[cur].children) = NodeRun(blob, run.end)

C18_Witness ==
    /\ pc = "read"
    /\ last.op = "fdt_next_property"
    /\ be32toh(blob, last.args[1]) = TokenBeginNode
    /\ last.ret = 0
    /\ last.prop = CallerProp

\* C20: fdt_skip_node returns the byte count fdt_unflatten_node returns at
\* the same offset, the bytes of the name, the properties, the child nodes
\* and the END_NODE token; it allocates no node and no property; at the
\* structure_offset of a blob dt_flatten wrote it returns the header's
\* structure_size.
C20_SkipAgrees ==
    (pc = "read" /\ last.op = "fdt_skip_node") =>
        LET offset == last.args[1]
        IN  /\ last.ret = fdt_unflatten_node(blob, offset, EmptyHeap).ret
            /\ be32toh(blob, offset) = TokenBeginNode =>
                   last.ret = EndOf(blob, offset, 0) - offset
            /\ nodes = <<>>
            /\ node_counter = 0
            /\ prop_counter = 0
            /\ slots = NoSlots
            /\ \A b \in InputBlobs, fill \in FillBytes :
                   (blob = FlatOf(b, fill) /\ offset = be32toh(blob, OffStructureOffset)) =>
                       /\ last.ret = be32toh(blob, OffStructureSize)
                       /\ LET u == fdt_unflatten(b, EmptyHeap)
                          IN  last.ret = dt_flat_node_size(u.h.nodes, u.tree.root,
                                                           ZeroSize).struct_size

C20_Witness ==
    /\ pc = "read"
    /\ last.op = "fdt_skip_node"
    /\ blob = FlatOf(BlobBoard, 255)
    /\ last.args[1] = be32toh(blob, OffStructureOffset)
    /\ last.ret = be32toh(blob, OffStructureSize)
    /\ last.ret > 0

\* The declared size of the property token of the blob, and the number of
\* 32-bit words that hold as many bytes.
DeclaredSize == be32toh_limbs(blob, be32toh(blob, OffStructureOffset) + 4)
DeclaredWords == DeclaredSize.hi * 16384 + (DeclaredSize.lo + 3) \div 4

\* 4 * words modulo 2^32, read as an int.
Times4Mod32(words) ==
    LET w == words % 1073741824
    IN  IF w > IntMax \div 4 THEN (w - 1073741824) * 4 ELSE w * 4

\* C19: on a PROPERTY token fdt_next_property returns 12 + the declared
\* size rounded up to a multiple of 4, for every 32-bit size, in 32-bit
\* arithmetic; on a BEGIN_NODE token fdt_node_name returns 4 + strlen(name)
\* + 1 rounded up to a multiple of 4; both values are positive multiples
\* of 4.
C19_ConsumedBytes ==
    pc = "sized" =>
        /\ last.op = "fdt_next_property" => last.ret = Times4Mod32(3 + DeclaredWords)
        /\ last.op = "fdt_node_name" => last.ret = 4 + RoundUp4(Len(last.name) + 1)
        /\ last.ret > 0
        /\ last.ret % 4 = 0

\* The same holds of every size for which 12 + the rounded size fits int,
\* and there the value is the one the reader functions work with.
ConsumedBytesWithinInt ==
    (pc = "sized" /\ (last.op = "fdt_next_property" => 3 + DeclaredWords <= IntMax \div 4)) =>
        /\ last.op = "fdt_next_property" =>
               /\ last.ret = 12 + 4 * DeclaredWords
               /\ (DeclaredSize.hi = 0 /\ DeclaredSize.lo <= 8) =>
                      last.ret = fdt_next_property(blob, last.args[1], CallerProp).ret
        /\ last.op = "fdt_node_name" => last.ret = 4 + RoundUp4(Len(last.name) + 1)
        /\ last.ret > 0
        /\ last.ret % 4 = 0

\* The tokens of the node that starts at off, in the order of the structure
\* block, each with the number of nodes open around it; depth nodes are
\* open at off.
RECURSIVE NodeTokens(_, _, _)
NodeTokens(buf, off, depth) ==
    LET token == be32toh(buf, off)
    IN  IF token = TokenBeginNode
        THEN << [kind |-> "node", name |-> CStr(buf, off + 4), depth |-> depth,
                 size |-> 0, data |-> <<>>] >>
                 \o NodeTokens(buf, off + 4 + RoundUp4(Len(CStr(buf, off + 4)) + 1), depth + 1)
        ELSE IF token = TokenProperty
        THEN LET size == be32toh(buf, off + 4)
             IN  << [kind |-> "prop",
                     name |-> CStr(buf, be32toh(buf, OffStringsOffset) + be32toh(buf, off + 8)),
                     depth |-> depth, size |-> size,
                     data |-> SubSeq(buf, off + 12 + 1, off + 12 + size)] >>
                     \o NodeTokens(buf, off + 12 + RoundUp4(size), depth)
        ELSE IF token = TokenEndNode /\ depth > 1
        THEN NodeTokens(buf, off + 4, depth - 1)
        ELSE <<>>

\* The same list made from a node of the tree: the node, its properties in
\* list order, then its children in list order, each in the same way.
RECURSIVE Outline(_, _, _)
RECURSIVE OutlineOf(_, _, _, _)
OutlineOf(ns, children, i, depth) ==
    IF i > Len(children) THEN <<>>
    ELSE Outline(ns, children[i], depth) \o OutlineOf(ns, children, i + 1, depth)

Outline(ns, n, depth) ==
    << [kind |-> "node", name |-> ns[n].name, depth |-> depth, size |-> 0, data |-> <<>>] >>
        \o [i \in 1..Len(ns[n].properties) |->
               [kind |-> "prop", name |-> ns[n].properties[i].name, depth |-> depth + 1,
                size |-> ns[n].properties[i].size, data |-> ns[n].properties[i].data]]
        \o OutlineOf(ns, ns[n].children, 1, depth + 1)

\* C21: builder order and termination of a node.  The node
\* fdt_unflatten_node builds has the properties of its PROPERTY tokens in
\* their order and the children of its nested BEGIN_NODE tokens in their
\* order, and so at every level; the bytes consumed end with the END_NODE
\* token that closes the node; the root of the tree fdt_unflatten returns is
\* the node at structure_offset.
C21_BuilderOrder ==
    (pc = "read" /\ last.op = "fdt_unflatten_node" /\ last.ret # 0) =>
        LET offset == last.args[1]
        IN  /\ Outline(nodes, cur, 0) = NodeTokens(blob, offset, 0)
            /\ last.ret = EndOf(blob, offset, 0) - offset
            /\ be32toh(blob, offset + last.ret - 4) = TokenEndNode
            /\ offset = be32toh(blob, OffStructureOffset) =>
                   LET u == fdt_unflatten(blob, EmptyHeap)
                   IN  /\ u.tree.root = cur
                       /\ u.h.nodes = nodes

C21_Witness ==
    /\ pc = "read"
    /\ last.op = "fdt_unflatten_node"
    /\ blob = BlobBoard
    /\ last.args[1] = be32toh(blob, OffStructureOffset)
    /\ Len(nodes[cur].properties) = 2
    /\ Len(nodes[cur].children) = 2
    /\ nodes[cur].properties[1].name = AddressCells
    /\ nodes[nodes[cur].children[1]].name = NameA
    /\ Len(nodes[nodes[cur].children[1]].children) = 1

\* The offsets of the header bytes dt_flatten writes anew: totalsize,
\* structure_offset, strings_offset, strings_size, structure_size.
RewrittenHeaderBytes ==
    UNION {o..(o + 3) : o \in {OffTotalsize, OffStructureOffset, OffStringsOffset,
                               OffStringsSize, OffStructureSize}}

\* C22: header preservation.  header_size is the minimum of the header's
\* structure_offset, strings_offset and reserve_map_offset; the first
\* header_size bytes dt_flatten writes are the bytes of the original header
\* but for the fields totalsize, structure_offset, structure_size,
\* strings_offset and strings_size; dt_flatten leaves the original blob,
\* the tree and the property data as they are.
C22_HeaderPreserved ==
    [][(pc = "tree" /\ pc' = "flat") =>
           /\ tree.header_size = MIN(MIN(be32toh(blob, OffStructureOffset),
                                         be32toh(blob, OffStringsOffset)),
                                     be32toh(blob, OffReserveMapOffset))
           /\ \A o \in (0..(tree.header_size - 1)) \ RewrittenHeaderBytes :
                  out'.buf[o + 1] = blob[o + 1]
           /\ blob' = blob
           /\ tree' = tree
           /\ nodes' = nodes
    ]_vars

C22_Witness ==
    /\ pc = "flat"
    /\ blob = BlobCompat
    /\ last.args = <<255>>
    /\ tree.header_size = 48
    /\ SubSeq(out.buf, 41, 48) = <<222, 173, 190, 239, 1, 2, 3, 4>>
    /\ SubSeq(out.buf, 21, 32) = SubSeq(blob, 21, 32)

\* Does node n have a property called name of size bytes that are the first
\* size bytes of data.
HasValue(ns, n, name, data, size) ==
    \E i \in 1..Len(ns[n].properties) :
        /\ ns[n].properties[i].name = name
        /\ ns[n].properties[i].size = size
        /\ ns[n].properties[i].data = SubSeq(data, 1, size)

\* C23: dt_find_prop_value(parent, name, data, size) returns the first node
\* of parent's subtree, in depth-first pre-order, whose property called
\* name has size bytes equal to data, and NULL when there is none; a node
\* whose property called name has another size or other bytes does not end
\* the search: its children and later siblings are still looked at.
C23_PropValueSearch ==
    (pc = "queried" /\ last.op = "dt_find_prop_value") =>
        LET parent == last.args[1]
            hits == SelectSeq(PreOrder(nodes, parent),
                              LAMBDA n : HasValue(nodes, n, last.args[2], last.args[3],
                                                  last.args[4]))
        IN  last.ret = IF hits = <<>> THEN NULL ELSE Head(hits)

\* The search for x = [02] from the root of BlobValues has returned b,
\* behind the root and a, whose x has other bytes and another size.
C23_Witness ==
    /\ pc = "queried"
    /\ last.op = "dt_find_prop_value"
    /\ blob = BlobValues
    /\ last.args = <<tree.root, NameX, <<2>>, 1>>
    /\ last.ret # NULL
    /\ nodes[last.ret].name = NameB
    /\ nodes[tree.root].children # <<>>
    /\ nodes[nodes[tree.root].children[1]].name = NameA
    /\ last.ret \in ChildSet(nodes, nodes[tree.root].children[1])

\* The nodes a walk from parent along path passes, parent first.
RECURSIVE Walked(_, _, _)
Walked(ns, parent, path) ==
    IF path = <<>> THEN <<parent>>
    ELSE LET next == Walk(ns, parent, <<Head(path)>>)
         IN  IF next = NULL THEN <<parent>>
             ELSE <<parent>> \o Walked(ns, next, Tail(path))

\* The value a cell variable holds after a walk over the nodes of seq: the
\* decoded property called name of the last node of seq that has one, and
\* initial when no node of seq has one.
CellAfter(ns, seq, name, initial) ==
    LET having == {k \in 1..Len(seq) :
                       \E i \in 1..Len(ns[seq[k]].properties) :
                           ns[seq[k]].properties[i].name = name}
    IN  IF having = {} THEN initial
        ELSE LET k == CHOOSE k \in having : \A j \in having : j <= k
                 props == ns[seq[k]].properties
                 i == CHOOSE i \in 1..Len(props) : props[i].name = name
                 d == props[i].data
             IN  d[1] * 16777216 + d[2] * 65536 + d[3] * 256 + d[4]

\* C24: cell tracking along a path.  When dt_find_node returns a node after
\* a walk over n0 (the start node), ..., nk (the node returned), *addrcp is
\* the big-endian value of #address-cells of the last of these nodes that
\* has that property, and the value it held before the call when none has
\* it; the same for *sizecp and #size-cells, each without regard to the
\* other; properties of other nodes play no part.
C24_CellTracking ==
    (pc = "queried" /\ last.op = "dt_find_node" /\ last.ret # NULL) =>
        LET parent == last.args[1]
            path == last.args[2]
            before == last.args[4]
            walked == Walked(nodes, parent, path)
        IN  /\ walked[Len(walked)] = last.ret
            /\ Len(walked) = Len(path) + 1
            /\ last.cells.addr = IF before.addr = NoPtr THEN NoPtr
                                 ELSE CellAfter(nodes, walked, AddressCells, before.addr)
            /\ last.cells.size = IF before.size = NoPtr THEN NoPtr
                                 ELSE CellAfter(nodes, walked, SizeCells, before.size)

\* The walk from the root of BlobValues to a/b has taken #size-cells from
\* the root and #address-cells from a; c, not on the path, has #size-cells
\* 2.
C24_Witness ==
    /\ pc = "queried"
    /\ last.op = "dt_find_node"
    /\ blob = BlobValues
    /\ last.args = <<tree.root, <<NameA, NameB>>, 0, [addr |-> 7, size |-> 9]>>
    /\ last.ret # NULL
    /\ last.cells = [addr |-> 2, size |-> 1]

\* C25: node-name invariant.  In every tree fdt_unflatten and calls of
\* dt_find_node, with and without create, and of dt_add_*_prop lead to,
\* every node but the root has a name that is not empty.
C25_NodeNames ==
    \A n \in 1..Len(nodes) : n # tree.root => nodes[n].name # <<>>

\* The same, as long as no component "" is passed to dt_find_node with
\* create = 1.
NodeNamesOfNamedComponents ==
    (\A n \in 1..Len(nodes) : n # tree.root => nodes[n].name # <<>>)
        \/ /\ last.op = "dt_find_node"
           /\ last.args[3] = 1
           /\ \E i \in 1..Len(last.args[2]) : last.args[2][i] = <<>>

\* C26: after dt_flatten the reserve_map_offset of the output header is
\* header_size, the offset at which dt_flatten wrote the reserve map,
\* whatever the order of the sections of the blob the tree came from; so
\* fdt_unflatten of the output reads the reserve map dt_flatten wrote.
C26_ReserveMapOffset ==
    pc = "flat" =>
        /\ be32toh(out.buf, OffReserveMapOffset) = tree.header_size
        /\ UnflattenMap(out.buf, be32toh(out.buf, OffReserveMapOffset), <<>>).map
               = tree.reserve_map

\* The field is the one the original header had; it is header_size when the
\* reserve map came first in the blob the tree was made from.
ReserveMapOffsetCopied ==
    pc = "flat" =>
        /\ be32toh(out.buf, OffReserveMapOffset) = be32toh(blob, OffReserveMapOffset)
        /\ be32toh(blob, OffReserveMapOffset) = tree.header_size =>
               UnflattenMap(out.buf, tree.header_size, <<>>).map = tree.reserve_map

\* dt_flatten of the tree into a buffer that held fill everywhere.
FlattenedOver(fill) ==
    dt_flatten(tree, blob, nodes, [i \in 1..dt_flat_size(tree, nodes) |-> fill])

\* C27: dt_flatten is deterministic in the tree alone.  Flattening the same
\* tree into buffers with different contents gives the same bytes at every
\* offset below totalsize, the padding behind node names and property
\* values included.
C27_FlattenDeterministic ==
    pc = "flat" =>
        \A fill \in FillBytes :
            LET other == FlattenedOver(fill)
            IN  /\ be32toh(other.buf, OffTotalsize) = be32toh(out.buf, OffTotalsize)
                /\ \A o \in 0..(be32toh(out.buf, OffTotalsize) - 1) :
                       other.buf[o + 1] = out.buf[o + 1]

\* Where two such outputs differ, each holds what its buffer held before:
\* the bytes lie in the structure block and dt_flatten stored neither.
DiffersWhereUnwritten ==
    pc = "flat" =>
        \A fill \in FillBytes :
            LET other == FlattenedOver(fill)
            IN  \A o \in 0..(be32toh(out.buf, OffTotalsize) - 1) :
                    other.buf[o + 1] # out.buf[o + 1] =>
                        /\ other.buf[o + 1] = fill
                        /\ out.buf[o + 1] = last.args[1]
                        /\ o >= be32toh(out.buf, OffStructureOffset)
                        /\ o < be32toh(out.buf, OffStructureOffset)
                                   + be32toh(out.buf, OffStructureSize)

\* The calls that only look at the tree.
Lookups == {"dt_find_compat", "dt_find_next_compat_child", "dt_find_prop_value",
            "dt_find_bin_prop", "dt_flat_size"}

\* C28: dt_find_node with create = 0 is read-only on the tree.  Whether it
\* returns a node or NULL, no node and no property is made, no list of
\* children or properties changes, node_counter and prop_counter stay;
\* the same for dt_find_compat, dt_find_next_compat_child,
\* dt_find_prop_value, dt_find_bin_prop and dt_flat_size.
C28_LookupsReadOnly ==
    [][(/\ pc = "tree"
        /\ pc' = "queried"
        /\ \/ last'.op \in Lookups
           \/ last'.op = "dt_find_node" /\ last'.args[3] = 0) =>
           /\ nodes' = nodes
           /\ node_counter' = node_counter
           /\ prop_counter' = prop_counter
           /\ slots' = slots
           /\ tree' = tree
           /\ blob' = blob
    ]_vars

\* dt_find_node(root, [a, d], create = 0) on BlobBoard has found a, not d,
\* and returned NULL; the tree has the four nodes it had.
C28_Witness ==
    /\ pc = "queried"
    /\ last.op = "dt_find_node"
    /\ blob = BlobBoard
    /\ last.args[1] = tree.root
    /\ last.args[2] = <<NameA, NameD>>
    /\ last.args[3] = 0
    /\ last.ret = NULL
    /\ Len(nodes) = 4
    /\ node_counter = 4

\* The commands in the submission queue the controller has not completed.
Outstanding == (ctrlr.sq_t_dbl - ctrlr.hw_head) % QueueSize

\* C29: nvme_read and nvme_write return the block count asked for only if
\* every command they queued was completed by the controller; when a step
\* fails or times out, the completion poll behind the last doorbell ring
\* included, they return -1.
C29_NvmeCountOnlyWhenCompleted ==
    last.op \in {"nvme_read", "nvme_write"} =>
        /\ last.ret = last.args[1] =>
               /\ Outstanding = 0
               /\ ctrlr.polled >= ctrlr.queued
        /\ (NVME_ERROR(last.status) \/ last.final = NVME_TIMEOUT) => last.ret = NvmeFailed

\* A failure before the last doorbell ring does give -1, and a call that
\* returns the count has queued a command for every chunk.
NvmeFailsWhileQueueing ==
    last.op \in {"nvme_read", "nvme_write"} =>
        /\ NVME_ERROR(last.status) <=> last.ret = NvmeFailed
        /\ last.ret # NvmeFailed =>
               /\ last.ret = last.args[1]
               /\ ctrlr.queued = (last.args[1] + MaxTransferBlocks - 1) \div MaxTransferBlocks

\* The offsets of dest commandline_subst stored a byte at.
StoredOffsets ==
    (0 .. Len(dest.text) - 1) \cup (IF dest.nul THEN {Len(dest.text)} ELSE {})

\* C30: for every dest_size up to 10000, every byte commandline_subst
\* stores, the NUL behind the loop included, lies in dest[0 .. dest_size-1];
\* it returns 0 with the NUL stored, or 1.
C30_StoresInsideDest ==
    (last.op = "commandline_subst" /\ dest.size <= 10000) =>
        /\ \A o \in StoredOffsets : o < dest.size
        /\ last.ret \in {0, 1}
        /\ last.ret = 0 <=> dest.nul

\* The characters and replacements lie inside the buffer, and so does the
\* NUL once the loop has stored anything; a NUL outside is the byte right
\* behind the buffer, stored for an empty src behind a prefix that fills
\* the buffer.
StoresOutsideOnlyTheNul ==
    last.op = "commandline_subst" =>
        /\ Len(dest.text) <= dest.size
        /\ (dest.nul /\ last.args[1] # <<>>) => Len(dest.text) < dest.size
        /\ (dest.nul /\ Len(dest.text) = dest.size) =>
               /\ last.args[1] = <<>>
               /\ dest.text = cros_secure \o last.args[4].str

====
